---- MODULE Spec2Model ----
(***************************************************************************)
(* Forecast presentation of the macro trading terminal: the expandable     *)
(* tiles and the global panel of src/unnamed/part_000 (windowing of the    *)
(* historical series, composition of the chart datasets, the precomputed   *)
(* load and the on-demand analysis requests with their responses), and the *)
(* indicator cards of the legacy view of src/static/script.js.  A browser   *)
(* loads one of the two pages; both scripts declare the global `state`.     *)
(*                                                                         *)
(* Dates are period ordinals (1 = oldest).  A chart cell is a sequence:    *)
(* <<>> is JavaScript null, <<v>> the number v, so that a cell is never    *)
(* confused with a value.  parseInt yields <<n>> or <<>> for NaN.          *)
(***************************************************************************)
EXTENDS Integers, Sequences, FiniteSets, TLC

VARIABLES
    opened,      \* opened[t]: tile t has been opened, its Run button is bound
    container,   \* container[t]: the first .tile-chart-container of tile t
    bind,        \* bind[t]: the onclick handler of tile t's period buttons
    activeT,     \* activeT[t]: the tile period button carrying class "active"
    tileStats,   \* tileStats[t]: content of .stats-grid
    tileQuality, \* tileQuality[t]: content of .quality-content
    tileDiff,    \* tileDiff[t]: the chart on canvas.diff-chart
    gstate,      \* the global `state` object
    gpanel,      \* the global panel: statsGrid, modelQuality, active period button
    overlay,     \* style.display of #loadingOverlay
    inflight,    \* requests sent and not yet answered
    nreq,        \* number of user commands so far; the id of the next request
    alerts,      \* the text of the last alert() dialog shown, <<>> before the first
    page,        \* the page loaded: "terminal" (part_000) or "legacy" (static/script.js)
    cards,       \* cards[s]: the indicator card of series s in the legacy card view
    lstate,      \* the `state` object of the legacy card view
    list,        \* content of #calendarList
    calendarLoading, \* style.display of #calendarLoading
    refreshBtn,  \* refreshBtn[b]: innerHTML and disabled of a refresh button
    cache,       \* server: cache[s] is the CacheEntry of series s, or Absent
    running,     \* server: the compute closures of getOrCompute now executing
    calls,       \* server: the calls of getOrCompute made so far and their outcome
    invoked,     \* server: invoked[s] counts the compute closures started for s
    sweep        \* server: position, visits and end of the precompute sweep

vars == <<opened, container, bind, activeT, tileStats, tileQuality, tileDiff,
          gstate, gpanel, overlay, inflight, nreq, alerts, page, cards, lstate,
          list, calendarLoading, refreshBtn, cache, running, calls, invoked, sweep>>

\* what belongs to the terminal page only, and to the legacy card view only
terminalVars == <<opened, container, bind, activeT, tileStats, tileQuality, tileDiff,
                  gstate, gpanel, overlay>>
legacyVars == <<page, cards, lstate>>

\* the calendar panel of the terminal page
calendarVars == <<list, calendarLoading, refreshBtn>>

\* what the handlers of the tiles, the global panel and the cards leave alone
\* the backend: the forecast cache and the precompute sweep
serverVars == <<cache, running, calls, invoked, sweep>>

auxVars == <<calendarVars, serverVars>>

-----------------------------------------------------------------------------
(* Bounds of the model *)

\* total number of user commands (tile openings, Run clicks) of one behaviour
MaxRequests == 2
\* largest forecast horizon a user asks for
MaxHorizon == 2
\* observations of the long series (more than the window of 12)
LongHist == 13
\* observations of the short series (fewer than the window of 12, more than half)
ShortHist == 8

\* the series of the calendar, one tile each
Series == {1, 2}

HistLen(s) == IF s = 1 THEN LongHist ELSE ShortHist

\* the horizons a user asks for: the smallest and the largest
Horizons == {1, MaxHorizon}

-----------------------------------------------------------------------------
(* JavaScript values and array primitives *)

Null == <<>>
NaN == <<>>
None == [kind |-> "none"]

Max(a, b) == IF a >= b THEN a ELSE b
Min(a, b) == IF a <= b THEN a ELSE b

\* Array.prototype.slice(start): a negative start counts from the end
Slice(arr, start) ==
    LET n == Len(arr)
        from == IF start < 0 THEN Max(n + start, 0) ELSE Min(start, n)
    IN  SubSeq(arr, from + 1, n)

\* Array(n).fill(null), for n >= 0
Fill(n) == [i \in 1..n |-> Null]

\* the numbers of an array as chart cells
Cells(arr) == [i \in 1..Len(arr) |-> <<arr[i]>>]

\* parseInt of a data-period attribute or of the value of a number input
ParseInt(str) ==
    CASE str = "12" -> <<12>>
      [] str = "24" -> <<24>>
      [] str = "60" -> <<60>>
      [] str = "0"  -> <<0>>
      [] str = "1"  -> <<1>>
      [] str = "2"  -> <<2>>
      [] str = "3"  -> <<3>>
      [] str = "4"  -> <<4>>
      [] str = "5"  -> <<5>>
      [] str = "6"  -> <<6>>
      [] str = "-3" -> <<-3>>
      [] OTHER      -> NaN

\* parseInt(str) || fallback: NaN and 0 are falsy
OrDefault(p, fallback) == IF p = NaN \/ p[1] = 0 THEN fallback ELSE p[1]

\* periodValue > 0 (false for NaN)
IsPositive(p) == p # NaN /\ p[1] > 0

-----------------------------------------------------------------------------
(* The ForecastResult the server answers with.  The backend is not part of *)
(* the client sources; a result is a function of the series and of the     *)
(* request (model type, horizon), with arrays of the documented shape.     *)

ModelTypes == {"ARIMA"}

ModelNo(m) == IF m = "ARIMA" THEN 1 ELSE IF m = "MovingAverage" THEN 2 ELSE 3

\* the horizon of the precomputed sweep, one that no tile request below asks for
PrecomputedHorizon == MaxHorizon + 1

Observation(s, i) == 100 * s + i

ForecastValue(s, m, j) == 1000 * ModelNo(m) + 100 * s + j

Rmse(m, h) == ModelNo(m) + h

ForecastResult(s, m, h) ==
    LET n == HistLen(s)
        point == [j \in 1..h |-> ForecastValue(s, m, j)]
        band(k) == [j \in 1..h |-> point[j] + k * Rmse(m, h)]
    IN  [kind       |-> "result",
         series     |-> s,
         historical |-> [dates  |-> [i \in 1..n |-> i],
                         values |-> [i \in 1..n |-> Observation(s, i)]],
         forecast   |-> [dates        |-> [j \in 1..h |-> n + j],
                         values       |-> point,
                         sigma_1_up   |-> band(1),
                         sigma_1_down |-> band(-1),
                         sigma_2_up   |-> band(2),
                         sigma_2_down |-> band(-2)],
         comparison |-> [dates     |-> <<n>>,
                         actual    |-> <<Observation(s, n)>>,
                         predicted |-> <<Observation(s, n) + Rmse(m, h)>>],
         stats      |-> [RMSE |-> Rmse(m, h)],
         opinion    |-> <<s, m, h>>]

\* every result a response can carry
Results ==
    {ForecastResult(s, m, h) : s \in Series, m \in ModelTypes, h \in 1..PrecomputedHorizon}

-----------------------------------------------------------------------------
(* WindowResolver: the slicing of the historical arrays *)

\* histStart computed without Math.max(0, ...)
HistStartUnclamped(periodValue, len) ==
    IF IsPositive(periodValue) THEN len - periodValue[1] ELSE 0

\* histStart that falls back to the default window of 12 observations when
\* the period value is not positive
HistStartDefaultWindow(periodValue, len) ==
    IF IsPositive(periodValue)
    THEN Max(0, len - periodValue[1])
    ELSE Max(0, len - 12)

\* histStart of handlePeriodChange and renderTileForecastChart
HistStart(periodValue, len) ==
    IF IsPositive(periodValue) THEN Max(0, len - periodValue[1]) ELSE 0

\* a window that keeps the first observations instead of the last ones
WindowFirstN(historical, periodValue) ==
    LET count == IF IsPositive(periodValue)
                 THEN Min(periodValue[1], Len(historical.dates))
                 ELSE Len(historical.dates)
    IN  [dates  |-> SubSeq(historical.dates, 1, count),
         values |-> SubSeq(historical.values, 1, count)]

\* the historical {dates, values} shown for periodValue
WindowHistorical(historical, periodValue) ==
    LET histStart == HistStart(periodValue, Len(historical.dates))
    IN  [dates  |-> Slice(historical.dates, histStart),
         values |-> Slice(historical.values, histStart)]

\* the window a periodValue selects: <<count>>, or <<>> for the whole history
WindowOf(periodValue) == IF IsPositive(periodValue) THEN periodValue ELSE <<>>

-----------------------------------------------------------------------------
(* ChartComposer: the datasets on the combined date axis *)

\* [...historical.dates, ...forecast.dates]
AllDates(historical, forecast) == historical.dates \o forecast.dates

\* a historical line padded with zeroes instead of null
HistoricalValuesZeroPadded(historical, forecast) ==
    Cells(historical.values) \o [j \in 1..Len(forecast.dates) |-> <<0>>]

\* [...historical.values, ...Array(forecast.dates.length).fill(null)]
HistoricalValues(historical, forecast) ==
    Cells(historical.values) \o Fill(Len(forecast.dates))

\* a forecast line padded over the whole history, joined nowhere
ForecastValuesOffByOne(historical, forecast) ==
    Fill(Len(historical.dates))
        \o <<<<historical.values[Len(historical.values)]>>>>
        \o Cells(forecast.values)

\* a forecast line joined to the first historical value instead of the last
ForecastValuesJoinFirst(historical, forecast) ==
    Fill(Len(historical.dates) - 1)
        \o <<<<historical.values[1]>>>>
        \o Cells(forecast.values)

\* [...Array(historical.dates.length - 1).fill(null),
\*  historical.values[historical.values.length - 1], ...forecast.values]
ForecastValues(historical, forecast) ==
    Fill(Len(historical.dates) - 1)
        \o <<<<historical.values[Len(historical.values)]>>>>
        \o Cells(forecast.values)

\* [...Array(historical.dates.length).fill(null), ...band]
BandValues(historical, band) == Fill(Len(historical.dates)) \o Cells(band)

\* the datasets of the tile chart: both lines and the one-sigma pair
TileDatasets(historical, forecast) ==
    << [label |-> "Historical", data |-> HistoricalValues(historical, forecast)],
       [label |-> "Forecast",   data |-> ForecastValues(historical, forecast)],
       [label |-> "+1s RMSE",   data |-> BandValues(historical, forecast.sigma_1_up)],
       [label |-> "-1s RMSE",   data |-> BandValues(historical, forecast.sigma_1_down)] >>

\* the datasets of the global chart: both lines and the four bands
GlobalDatasets(historical, forecast) ==
    << [label |-> "Historical", data |-> HistoricalValues(historical, forecast)],
       [label |-> "Forecast",   data |-> ForecastValues(historical, forecast)],
       [label |-> "+2s RMSE",   data |-> BandValues(historical, forecast.sigma_2_up)],
       [label |-> "+1s RMSE",   data |-> BandValues(historical, forecast.sigma_1_up)],
       [label |-> "-1s RMSE",   data |-> BandValues(historical, forecast.sigma_1_down)],
       [label |-> "-2s RMSE",   data |-> BandValues(historical, forecast.sigma_2_down)] >>

\* the Chart.js instance: labels and datasets, with the window it was composed
\* for and the {historical, forecast} it was composed from
Chart(labels, datasets, window, src) ==
    [kind |-> "chart", labels |-> labels, datasets |-> datasets,
     window |-> window, src |-> src]

-----------------------------------------------------------------------------
(* Rendering inside a tile *)

\* the data-period attributes of a tile's period buttons
TilePeriodButtons == {"12", "24", "60", "0"}

\* the periodValue of the first render of a result
DefaultPeriod == 12

\* a fresh <canvas class="forecast-chart">: no _fullData, no chart
FreshCanvas == [kind |-> "canvas", fullData |-> None, chart |-> None]

Spinner == [kind |-> "spinner"]

NotReady(error) == [kind |-> "notready", error |-> error]

\* a render that stores the windowed history as the canvas's full data
RenderTileForecastChartStoresWindow(c, data, periodValue) ==
    IF c.kind # "canvas"
    THEN c
    ELSE LET historical == IF IsPositive(periodValue)
                           THEN WindowHistorical(data.historical, periodValue)
                           ELSE data.historical
             forecast == data.forecast
         IN  [kind     |-> "canvas",
              fullData |-> [data EXCEPT !.historical = historical],
              chart    |-> Chart(AllDates(historical, forecast),
                                 TileDatasets(historical, forecast),
                                 WindowOf(periodValue),
                                 [historical |-> historical, forecast |-> forecast])]

\* renderTileForecastChart(content, data, periodValue) on chart container c
RenderTileForecastChart(c, data, periodValue) ==
    IF c.kind # "canvas"
    THEN c
    ELSE LET historical == IF IsPositive(periodValue)
                           THEN WindowHistorical(data.historical, periodValue)
                           ELSE data.historical
             forecast == data.forecast
         IN  [kind     |-> "canvas",
              fullData |-> data,
              chart    |-> Chart(AllDates(historical, forecast),
                                 TileDatasets(historical, forecast),
                                 WindowOf(periodValue),
                                 [historical |-> data.historical, forecast |-> forecast])]

\* renderTileDiffChart(content, data)
RenderTileDiffChart(data) == [kind |-> "diff", comparison |-> data.comparison]

\* the stats grid written by loadPrecomputedModel
PrecomputedStats(result, best_model) ==
    [kind |-> "stats", best |-> best_model, RMSE |-> result.stats.RMSE]

\* renderTileStats(content, data, modelType): the grid does not show the model
RenderTileStats(data, modelType) ==
    [kind |-> "stats", best |-> "", RMSE |-> data.stats.RMSE]

\* renderTileQuality(content, data) and the quality block of loadPrecomputedModel
RenderTileQuality(data) == [kind |-> "opinion", text |-> data.opinion]

-----------------------------------------------------------------------------
(* Rendering in the global panel *)

\* the data-period attributes of the global panel's period buttons
GlobalPeriodButtons == {"12", "0", "MAX"}

\* renderForecastChart(data): the chart of the whole history
RenderForecastChart(data) ==
    Chart(AllDates(data.historical, data.forecast),
          GlobalDatasets(data.historical, data.forecast),
          <<>>,
          [historical |-> data.historical, forecast |-> data.forecast])

\* a chart update that writes the bands in the dataset order of the tile chart
UpdateChartTileOrder(chart, fullChartData, periodValue) ==
    LET sliced == WindowHistorical(fullChartData.historical, periodValue)
        forecast == fullChartData.forecast
        data == << HistoricalValues(sliced, forecast),
                   ForecastValues(sliced, forecast),
                   BandValues(sliced, forecast.sigma_1_up),
                   BandValues(sliced, forecast.sigma_1_down),
                   BandValues(sliced, forecast.sigma_2_up),
                   BandValues(sliced, forecast.sigma_2_down) >>
    IN  Chart(AllDates(sliced, forecast),
              [k \in 1..Len(chart.datasets) |->
                  [label |-> chart.datasets[k].label, data |-> data[k]]],
              WindowOf(periodValue),
              fullChartData)

\* the chart update of handlePeriodChange: labels and the data of datasets 0..5
UpdateChart(chart, fullChartData, periodValue) ==
    LET sliced == WindowHistorical(fullChartData.historical, periodValue)
        forecast == fullChartData.forecast
        data == << HistoricalValues(sliced, forecast),
                   ForecastValues(sliced, forecast),
                   BandValues(sliced, forecast.sigma_2_up),
                   BandValues(sliced, forecast.sigma_1_up),
                   BandValues(sliced, forecast.sigma_1_down),
                   BandValues(sliced, forecast.sigma_2_down) >>
    IN  Chart(AllDates(sliced, forecast),
              [k \in 1..Len(chart.datasets) |->
                  [label |-> chart.datasets[k].label, data |-> data[k]]],
              WindowOf(periodValue),
              fullChartData)

\* renderStats(data, modelType)
RenderStats(data, modelType) ==
    [kind |-> "stats", best |-> modelType, RMSE |-> data.stats.RMSE]

\* renderModelQuality(data)
RenderModelQuality(data) == [kind |-> "opinion", text |-> data.opinion]

-----------------------------------------------------------------------------
(* Requests and responses *)

\* the error field of a precomputed response for a series not computed yet
PrecomputedErrors == {"No precomputed model"}

\* the detail field of a non-OK analyze response ("" for a payload without one)
ErrorDetails == {"insufficient-data", ""}

\* error.message of a rejected fetch
FetchFailed == "Failed to fetch"

Request(id, kind, s, m, h) ==
    [id |-> id, kind |-> kind, series |-> s, model_type |-> m, h_future |-> h]

\* err.detail || 'Analysis failed'
ErrorMessage(detail) == IF detail # "" THEN detail ELSE "Analysis failed"

\* alert(prefix + message)
Alert(prefix, message) == <<prefix, message>>

Indicator(s) == [kind |-> "indicator", series_id |-> s]

-----------------------------------------------------------------------------
(* The legacy card view (static/script.js): one card per indicator *)

\* h_future of the default analysis loadIndicatorAnalysis asks for
DefaultHorizon == 6

\* the placeholder createIndicatorCard puts in .indicator-content
LoadingIndicator == [kind |-> "loading"]

\* the error-state block loadIndicatorAnalysis writes into .indicator-content
ErrorState(message) == [kind |-> "error-state", message |-> message]

\* error.message of Plotly.newPlot for a chart element that is not on the page
NoChartElement == "No DOM element with id"

\* createIndicatorCard(indicator)
CreateIndicatorCard(s) ==
    [collapsed |-> TRUE, content |-> LoadingIndicator, opacity |-> "", forecast |-> None]

\* renderCharts(card, analysis): the main chart and the diff chart in mode 'real'
RenderCharts(analysis) ==
    [main |-> [historical |-> analysis.historical, forecast |-> analysis.forecast],
     diff |-> [mode |-> "real", comparison |-> analysis.comparison]]

\* what loadIndicatorAnalysis renders into .indicator-content: the markup is
\* new, so each [data-diff-mode] button carries the one click listener that
\* renderDiffChart adds, a closure over the analysis (the three buttons always
\* carry the same listeners, kept here as one sequence)
AnalysisContent(analysis) ==
    [kind      |-> "analysis",
     charts    |-> RenderCharts(analysis),
     stats     |-> analysis.stats,
     opinion   |-> analysis.opinion,
     listeners |-> <<analysis>>]

\* what updateAnalysis leaves in .indicator-content: charts, stats and opinion
\* are redrawn in the markup that is there, and renderDiffChart adds one more
\* click listener to each [data-diff-mode] button
RedrawnContent(content, analysis) ==
    [AnalysisContent(analysis) EXCEPT !.listeners = content.listeners \o <<analysis>>]

\* the data-diff-mode attributes of the diff buttons of a card
DiffModes == {"real", "forecast", "error"}

\* the text of [data-forecast] in the card header
ForecastText(analysis) == <<"Forecast: ", analysis.forecast.values[1]>>

\* the key fetchAnalysis caches under
CacheKey(seriesId, params) == <<seriesId, params.model_type, params.p, params.d, params.q>>

\* the key toggleIndicatorCard looks up: `${series_id}_ARIMA_1_1_1`
DefaultCacheKey(seriesId) == <<seriesId, "ARIMA", 1, 1, 1>>

\* the order parameters sent with a request of the legacy view (the inputs'
\* default values)
Params(modelType) == [model_type |-> modelType, p |-> 1, d |-> 1, q |-> 1]

\* state.analysisCache.set(key, data)
CacheSet(map, key, data) ==
    [k \in DOMAIN map \cup {key} |-> IF k = key THEN data ELSE map[k]]

-----------------------------------------------------------------------------
(* The calendar panel: the calendar payload, its rendering, the refresh     *)
(* buttons.  The payload is one date with its list of indicator entries.    *)

\* largest number of indicator entries of a calendar payload
MaxEntries == 2

\* an indicator entry whose series_id is a string
ValidEntry(s) == [kind |-> "object", series_id |-> [type |-> "string", id |-> s]]

\* an indicator entry whose series_id is a (non-zero) number
NumericIdEntry(s) == [kind |-> "object", series_id |-> [type |-> "number", id |-> s]]

\* an indicator entry without series_id
NoIdEntry == [kind |-> "object", series_id |-> [type |-> "undefined", id |-> 0]]

\* a null in the list of indicators
NullEntry == [kind |-> "null", series_id |-> [type |-> "undefined", id |-> 0]]

\* the entries a calendar payload can hold
Entries == {ValidEntry(1), NumericIdEntry(2), NoIdEntry, NullEntry}

RECURSIVE SeqsUpTo(_, _)
\* the sequences over S of length at most n
SeqsUpTo(S, n) ==
    IF n = 0 THEN {<<>>}
    ELSE LET shorter == SeqsUpTo(S, n - 1)
         IN  shorter \cup {Append(q, e) : q \in {r \in shorter : Len(r) = n - 1}, e \in S}

\* the calendar payloads of /api/calendar
Calendars == SeqsUpTo(Entries, MaxEntries)

\* the calendar of the tiles of Series
ValidCalendar == <<ValidEntry(1), ValidEntry(2)>>

\* the calendar object: one date key with its indicators
CalendarObject(indicators) == [kind |-> "calendar", indicators |-> indicators]

\* !indicator || !indicator.series_id
IsSkipped(indicator) ==
    indicator.kind = "null" \/ indicator.series_id.type = "undefined"

\* indicator.series_id.replace(...) throws TypeError unless series_id is a string
ReplaceThrows(indicator) ==
    ~IsSkipped(indicator) /\ indicator.series_id.type # "string"

\* the tiles of a rendered list: the series of each <details> element, in order
Tiles(tiles) == [kind |-> "tiles", tiles |-> tiles]

\* the placeholder loadCalendar writes when the fetch or the rendering throws
CalendarError(message) == [kind |-> "error", message |-> message]

RECURSIVE TilesOf(_)
\* the series of the entries that get a tile, in order
TilesOf(calendar) ==
    IF calendar = <<>> THEN <<>>
    ELSE IF IsSkipped(Head(calendar))
         THEN TilesOf(Tail(calendar))
         ELSE <<Head(calendar).series_id.id>> \o TilesOf(Tail(calendar))

\* renderCalendar(calendar) inside the try of loadCalendar: the list it leaves
RenderCalendar(calendar) ==
    IF \E i \in 1..Len(calendar) : ReplaceThrows(calendar[i])
    THEN CalendarError("indicator.series_id.replace is not a function")
    ELSE Tiles(TilesOf(calendar))

\* the refresh buttons
RefreshButtons == {"refreshStocks", "refreshEconomic"}

\* a refresh button as the page shows it, and while its request runs
IdleButton(b) == [innerHTML |-> b, disabled |-> FALSE]
UpdatingButton == [innerHTML |-> "Updating...", disabled |-> TRUE]

\* the alert of a successful refresh
RefreshSuccessText(b) ==
    IF b = "refreshStocks"
    THEN "Dane spolek S&P 500 zostaly zaktualizowane!"
    ELSE "Kalendarz ekonomiczny zostal zaktualizowany!"

\* the alert of a refresh whose fetch or body fails
RefreshConnectionText(b) ==
    IF b = "refreshStocks"
    THEN "Blad polaczenia podczas aktualizacji danych spolek"
    ELSE "Blad polaczenia podczas aktualizacji kalendarza ekonomicznego"

\* data.message of a refresh response ("" for a response without one)
RefreshMessages == {"stale", ""}

\* data.message || 'Nieznany blad'
RefreshErrorMessage(message) == IF message # "" THEN message ELSE "Nieznany blad"

\* the /api/calendar request of loadCalendar; awaitedBy is the refresh button
\* whose handler awaits it ("" when initializeApp called loadCalendar)
CalendarRequest(id, awaitedBy) ==
    [id |-> id, kind |-> "calendar", series |-> 0, model_type |-> awaitedBy,
     h_future |-> 0]

\* the POST of a refresh button
RefreshRequest(id, b) ==
    [id |-> id, kind |-> "refresh", series |-> 0, model_type |-> b, h_future |-> 0]

-----------------------------------------------------------------------------
(* The backend: ModelSelector, ForecastCache, PrecomputeScheduler.  Its code  *)
(* is not part of the sources; it is modelled from the specification, 4.2   *)
(* to 4.4, 5 and 7.                                                          *)

\* the candidate set of the precompute closure, in its listed order
Candidates == <<"ARIMA", "MovingAverage", "MonteCarlo">>

\* largest RMSE and MAPE of a candidate run (a metric is the rank 1 or MaxError)
MaxError == 2

\* number of workers of the precompute pool
PoolSize == 2

\* the series the backend knows, in the order of the sweep: those of the
\* calendar and one more
KnownSeries == <<1, 2, 3>>
ServerSeries == {KnownSeries[k] : k \in 1..Len(KnownSeries)}

\* outcome of one ModelRunner invocation: a ComputationError, or a result
\* with its RMSE and MAPE
RunFailed == [ok |-> FALSE, rmse |-> 0, mape |-> 0]
RunConverged(rmse, mape) == [ok |-> TRUE, rmse |-> rmse, mape |-> mape]
ErrorRanks == {1, MaxError}
RunOutcomes ==
    {RunFailed} \cup {RunConverged(r, m) : r \in ErrorRanks, m \in ErrorRanks}

\* the outcomes of running every candidate on one series
CandidateRuns == [1..Len(Candidates) -> RunOutcomes]

\* a ranking in which a later candidate displaces an equal earlier one
RanksBeforeOrEqual(a, b) == a.rmse < b.rmse \/ (a.rmse = b.rmse /\ a.mape <= b.mape)

\* ranking: ascending RMSE, then ascending MAPE
RanksBefore(a, b) == a.rmse < b.rmse \/ (a.rmse = b.rmse /\ a.mape < b.mape)

\* the scan of selectBest: failed candidates are discarded, a survivor replaces
\* the best so far only when it ranks strictly before it
RECURSIVE SelectFrom(_, _, _)
SelectFrom(runs, i, best) ==
    IF i > Len(runs)
    THEN best
    ELSE SelectFrom(runs, i + 1,
                    IF runs[i].ok /\ (best = 0 \/ RanksBefore(runs[i], runs[best]))
                    THEN i ELSE best)

\* ModelSelector.selectBest: the position of the winner, 0 for
\* NoModelConvergedError
SelectBest(runs) == SelectFrom(runs, 1, 0)

\* a cache slot never computed
Absent == [kind |-> "absent"]

\* CacheEntry: (seriesId, modelKind chosen as best, computedAt); computedAt is
\* the ordinal of the computation of that series
CacheEntry(s, modelKind, computedAt) ==
    [kind |-> "entry", seriesId |-> s, modelKind |-> modelKind,
     computedAt |-> computedAt]

\* one execution of a compute closure
Computation(s, n) == [key |-> s, flight |-> n]

\* a call of getOrCompute: by the sweep or by a refresh request, its key, the
\* computation it waits for (0 when the cache answered), its outcome
Call(id, by, s, flight, status, entry) ==
    [id |-> id, by |-> by, key |-> s, flight |-> flight, status |-> status,
     entry |-> entry]

\* the backend when the process starts: nothing computed, the sweep not begun
ServerStart ==
    /\ cache = [s \in ServerSeries |-> Absent]
    /\ running = {}
    /\ calls = {}
    /\ invoked = [s \in ServerSeries |-> 0]
    /\ sweep = [next |-> 1, visits |-> [s \in ServerSeries |-> 0], done |-> FALSE]

-----------------------------------------------------------------------------
(* Initial state: the calendar is rendered, every tile and card is closed *)

Init ==
    /\ opened = [t \in Series |-> FALSE]
    /\ container = [t \in Series |-> FreshCanvas]
    /\ bind = [t \in Series |-> None]
    /\ activeT = [t \in Series |-> "12"]
    /\ tileStats = [t \in Series |-> None]
    /\ tileQuality = [t \in Series |-> None]
    /\ tileDiff = [t \in Series |-> None]
    /\ gstate = [currentIndicator |-> None, analysisResults |-> None,
                 fullChartData |-> None, forecast |-> None, diff |-> None,
                 calendar |-> CalendarObject(ValidCalendar)]
    /\ gpanel = [stats |-> None, quality |-> None, active |-> "12"]
    /\ overlay = "none"
    /\ inflight = {}
    /\ nreq = 0
    /\ alerts = <<>>
    /\ page \in {"terminal", "legacy"}
    /\ cards = [s \in Series |-> CreateIndicatorCard(s)]
    /\ lstate = [expandedIndicators |-> {}, analysisCache |-> <<>>]
    /\ list = RenderCalendar(ValidCalendar)
    /\ calendarLoading = "none"
    /\ refreshBtn = [b \in RefreshButtons |-> IdleButton(b)]
    /\ ServerStart

-----------------------------------------------------------------------------
(* Tiles: opening, the precomputed load *)

\* the toggle listener of a tile, when the tile opens (it does nothing when the
\* tile closes): initializeTileContent binds the Run button and runs
\* loadPrecomputedModel up to its fetch
OpenTile(t) ==
    /\ page = "terminal"
    /\ nreq < MaxRequests
    /\ opened' = [opened EXCEPT ![t] = TRUE]
    /\ gstate' = [gstate EXCEPT !.currentIndicator = Indicator(t)]
    /\ container' = [container EXCEPT ![t] = Spinner]
    /\ inflight' = inflight \cup {Request(nreq + 1, "precomputed", t, "", 0)}
    /\ nreq' = nreq + 1
    /\ UNCHANGED legacyVars
    /\ UNCHANGED auxVars
    /\ UNCHANGED <<bind, activeT, tileStats, tileQuality, tileDiff, gpanel,
                   overlay, alerts>>

\* an error response that leaves the loading spinner in place
PrecomputedAbsentKeepsSpinner(req, error) ==
    /\ req \in inflight /\ req.kind = "precomputed"
    /\ inflight' = inflight \ {req}
    /\ UNCHANGED legacyVars
    /\ UNCHANGED auxVars
    /\ UNCHANGED <<opened, container, bind, activeT, tileStats, tileQuality,
                   tileDiff, gstate, gpanel, overlay, nreq, alerts>>

\* an error response answered by asking for an analysis of the series
PrecomputedAbsentRunsAnalysis(req, error) ==
    /\ req \in inflight /\ req.kind = "precomputed"
    /\ inflight' = (inflight \ {req})
                      \cup {Request(req.id, "tile", req.series, "ARIMA", 1)}
    /\ container' = [container EXCEPT ![req.series] = NotReady(error)]
    /\ UNCHANGED legacyVars
    /\ UNCHANGED auxVars
    /\ UNCHANGED <<opened, bind, activeT, tileStats, tileQuality, tileDiff, gstate,
                   gpanel, overlay, nreq, alerts>>

\* loadPrecomputedModel, the response carries an error field
PrecomputedAbsent(req, error) ==
    /\ req \in inflight /\ req.kind = "precomputed"
    /\ inflight' = inflight \ {req}
    /\ container' = [container EXCEPT ![req.series] = NotReady(error)]
    /\ UNCHANGED legacyVars
    /\ UNCHANGED auxVars
    /\ UNCHANGED <<opened, bind, activeT, tileStats, tileQuality, tileDiff, gstate,
                   gpanel, overlay, nreq, alerts>>

\* loadPrecomputedModel, the response carries {result, best_model}
PrecomputedReady(req, best_model) ==
    LET t == req.series
        result == ForecastResult(t, best_model, PrecomputedHorizon)
    IN  /\ req \in inflight /\ req.kind = "precomputed"
        /\ inflight' = inflight \ {req}
        /\ gstate' = [gstate EXCEPT
                        !.analysisResults = result,
                        !.fullChartData = [historical |-> result.historical,
                                           forecast |-> result.forecast]]
        /\ container' = [container EXCEPT
                           ![t] = RenderTileForecastChart(FreshCanvas, result,
                                                          <<DefaultPeriod>>)]
        /\ bind' = [bind EXCEPT ![t] = [kind |-> "canvas"]]
        /\ tileDiff' = [tileDiff EXCEPT ![t] = RenderTileDiffChart(result)]
        /\ tileStats' = [tileStats EXCEPT ![t] = PrecomputedStats(result, best_model)]
        /\ tileQuality' = [tileQuality EXCEPT ![t] = RenderTileQuality(result)]
        /\ UNCHANGED legacyVars
        /\ UNCHANGED auxVars
        /\ UNCHANGED <<opened, activeT, gpanel, overlay, nreq, alerts>>

\* loadPrecomputedModel, the fetch is rejected or the body is not JSON
PrecomputedFailed(req) ==
    /\ req \in inflight /\ req.kind = "precomputed"
    /\ inflight' = inflight \ {req}
    /\ container' = [container EXCEPT ![req.series] = FreshCanvas]
    /\ UNCHANGED legacyVars
    /\ UNCHANGED auxVars
    /\ UNCHANGED <<opened, bind, activeT, tileStats, tileQuality, tileDiff, gstate,
                   gpanel, overlay, nreq, alerts>>

\* onclick of a tile's period button, as bound by loadPrecomputedModel
\* (re-renders canvas._fullData) or by runTileAnalysis (re-renders its result)
TilePeriodClick(t, btn) ==
    /\ bind[t] # None
    /\ activeT' = [activeT EXCEPT ![t] = btn]
    /\ container' = [container EXCEPT ![t] =
         IF bind[t].kind = "canvas"
         THEN IF container[t].kind = "canvas" /\ container[t].fullData # None
              THEN RenderTileForecastChart(container[t], container[t].fullData,
                                           ParseInt(btn))
              ELSE container[t]
         ELSE RenderTileForecastChart(container[t], bind[t].data, ParseInt(btn))]
    /\ UNCHANGED legacyVars
    /\ UNCHANGED auxVars
    /\ UNCHANGED <<opened, bind, tileStats, tileQuality, tileDiff, gstate, gpanel,
                   overlay, inflight, nreq, alerts>>

-----------------------------------------------------------------------------
(* Tiles: on-demand analysis *)

\* runTileAnalysis up to its fetch (the Run button is bound when the tile opens)
RunTileAnalysis(t, modelType, hFuture) ==
    /\ opened[t]
    /\ nreq < MaxRequests
    /\ overlay' = "flex"
    /\ inflight' = inflight \cup {Request(nreq + 1, "tile", t, modelType, hFuture)}
    /\ nreq' = nreq + 1
    /\ UNCHANGED legacyVars
    /\ UNCHANGED auxVars
    /\ UNCHANGED <<opened, container, bind, activeT, tileStats, tileQuality, tileDiff,
                   gstate, gpanel, alerts>>

\* a response handler that drops the response of a superseded request
TileAnalysisDoneLatestOnly(req) ==
    LET t == req.series
        analysisData == ForecastResult(t, req.model_type, req.h_future)
        latest == \A other \in inflight : other.id <= req.id
    IN  /\ req \in inflight /\ req.kind = "tile"
        /\ inflight' = inflight \ {req}
        /\ container' = [container EXCEPT
                           ![t] = IF latest
                                  THEN RenderTileForecastChart(container[t], analysisData,
                                                               <<DefaultPeriod>>)
                                  ELSE @]
        /\ bind' = [bind EXCEPT ![t] = IF latest
                                       THEN [kind |-> "closure", data |-> analysisData]
                                       ELSE @]
        /\ tileDiff' = [tileDiff EXCEPT ![t] = IF latest
                                               THEN RenderTileDiffChart(analysisData)
                                               ELSE @]
        /\ tileStats' = [tileStats EXCEPT
                           ![t] = IF latest
                                  THEN RenderTileStats(analysisData, req.model_type)
                                  ELSE @]
        /\ tileQuality' = [tileQuality EXCEPT ![t] = IF latest
                                                     THEN RenderTileQuality(analysisData)
                                                     ELSE @]
        /\ overlay' = "none"
        /\ UNCHANGED <<opened, activeT, gstate, gpanel, nreq, alerts>>
        /\ UNCHANGED legacyVars
        /\ UNCHANGED auxVars

\* a response handler that looks its elements up in the document, not in the
\* tile's container: it renders into the first opened tile
TileAnalysisDoneFirstTile(req) ==
    LET t == CHOOSE u \in Series : opened[u] /\ \A v \in Series : opened[v] => u <= v
        analysisData == ForecastResult(req.series, req.model_type, req.h_future)
    IN  /\ req \in inflight /\ req.kind = "tile"
        /\ inflight' = inflight \ {req}
        /\ container' = [container EXCEPT
                           ![t] = RenderTileForecastChart(container[t], analysisData,
                                                          <<DefaultPeriod>>)]
        /\ bind' = [bind EXCEPT ![t] = [kind |-> "closure", data |-> analysisData]]
        /\ tileDiff' = [tileDiff EXCEPT ![t] = RenderTileDiffChart(analysisData)]
        /\ tileStats' = [tileStats EXCEPT
                           ![t] = RenderTileStats(analysisData, req.model_type)]
        /\ tileQuality' = [tileQuality EXCEPT ![t] = RenderTileQuality(analysisData)]
        /\ overlay' = "none"
        /\ UNCHANGED legacyVars
        /\ UNCHANGED auxVars
        /\ UNCHANGED <<opened, activeT, gstate, gpanel, nreq, alerts>>

\* runTileAnalysis, the response is OK
TileAnalysisDone(req) ==
    LET t == req.series
        analysisData == ForecastResult(t, req.model_type, req.h_future)
    IN  /\ req \in inflight /\ req.kind = "tile"
        /\ inflight' = inflight \ {req}
        /\ container' = [container EXCEPT
                           ![t] = RenderTileForecastChart(container[t], analysisData,
                                                          <<DefaultPeriod>>)]
        /\ bind' = [bind EXCEPT ![t] = [kind |-> "closure", data |-> analysisData]]
        /\ tileDiff' = [tileDiff EXCEPT ![t] = RenderTileDiffChart(analysisData)]
        /\ tileStats' = [tileStats EXCEPT
                           ![t] = RenderTileStats(analysisData, req.model_type)]
        /\ tileQuality' = [tileQuality EXCEPT ![t] = RenderTileQuality(analysisData)]
        /\ overlay' = "none"
        /\ UNCHANGED legacyVars
        /\ UNCHANGED auxVars
        /\ UNCHANGED <<opened, activeT, gstate, gpanel, nreq, alerts>>

\* a failed analysis reported in the tile, the way a cache miss is
TileAnalysisErrorAsNotReady(req, detail) ==
    /\ req \in inflight /\ req.kind = "tile"
    /\ inflight' = inflight \ {req}
    /\ container' = [container EXCEPT ![req.series] = NotReady(ErrorMessage(detail))]
    /\ overlay' = "none"
    /\ UNCHANGED legacyVars
    /\ UNCHANGED auxVars
    /\ UNCHANGED <<opened, bind, activeT, tileStats, tileQuality, tileDiff,
                   gstate, gpanel, nreq, alerts>>

\* runTileAnalysis, the response is not OK and its payload carries detail
TileAnalysisError(req, detail) ==
    /\ req \in inflight /\ req.kind = "tile"
    /\ inflight' = inflight \ {req}
    /\ alerts' = Alert("Analysis failed: ", ErrorMessage(detail))
    /\ overlay' = "none"
    /\ UNCHANGED legacyVars
    /\ UNCHANGED auxVars
    /\ UNCHANGED <<opened, container, bind, activeT, tileStats, tileQuality, tileDiff,
                   gstate, gpanel, nreq>>

\* runTileAnalysis, the fetch is rejected
TileAnalysisFailed(req) ==
    /\ req \in inflight /\ req.kind = "tile"
    /\ inflight' = inflight \ {req}
    /\ alerts' = Alert("Analysis failed: ", FetchFailed)
    /\ overlay' = "none"
    /\ UNCHANGED legacyVars
    /\ UNCHANGED auxVars
    /\ UNCHANGED <<opened, container, bind, activeT, tileStats, tileQuality, tileDiff,
                   gstate, gpanel, nreq>>

-----------------------------------------------------------------------------
(* Global panel: analysis and period buttons *)

\* runAnalysis without a current indicator
RunAnalysisNoIndicator ==
    /\ page = "terminal"
    /\ gstate.currentIndicator = None
    /\ nreq < MaxRequests
    /\ alerts' = Alert("", "Please select an indicator first.")
    /\ nreq' = nreq + 1
    /\ UNCHANGED legacyVars
    /\ UNCHANGED auxVars
    /\ UNCHANGED <<opened, container, bind, activeT, tileStats, tileQuality, tileDiff,
                   gstate, gpanel, overlay, inflight>>

\* runAnalysis up to its fetch
RunAnalysis(modelType, hFuture) ==
    /\ gstate.currentIndicator # None
    /\ nreq < MaxRequests
    /\ overlay' = "flex"
    /\ inflight' = inflight \cup
         {Request(nreq + 1, "global", gstate.currentIndicator.series_id,
                  modelType, hFuture)}
    /\ nreq' = nreq + 1
    /\ UNCHANGED legacyVars
    /\ UNCHANGED auxVars
    /\ UNCHANGED <<opened, container, bind, activeT, tileStats, tileQuality, tileDiff,
                   gstate, gpanel, alerts>>

\* runAnalysis, the response is OK
AnalysisDone(req) ==
    LET analysisData == ForecastResult(req.series, req.model_type, req.h_future)
    IN  /\ req \in inflight /\ req.kind = "global"
        /\ inflight' = inflight \ {req}
        /\ gstate' = [gstate EXCEPT
                        !.analysisResults = analysisData,
                        !.fullChartData = [historical |-> analysisData.historical,
                                           forecast |-> analysisData.forecast],
                        !.forecast = RenderForecastChart(analysisData),
                        !.diff = RenderTileDiffChart(analysisData)]
        /\ gpanel' = [gpanel EXCEPT
                        !.stats = RenderStats(analysisData, req.model_type),
                        !.quality = RenderModelQuality(analysisData)]
        /\ overlay' = "none"
        /\ UNCHANGED legacyVars
        /\ UNCHANGED auxVars
        /\ UNCHANGED <<opened, container, bind, activeT, tileStats, tileQuality,
                       tileDiff, nreq, alerts>>

\* a failed analysis whose payload is stored before response.ok is tested
AnalysisErrorStoresPayload(req, detail) ==
    /\ req \in inflight /\ req.kind = "global"
    /\ inflight' = inflight \ {req}
    /\ gstate' = [gstate EXCEPT !.analysisResults = [kind |-> "error", detail |-> detail]]
    /\ alerts' = Alert("Analysis Error: ", ErrorMessage(detail))
    /\ overlay' = "none"
    /\ UNCHANGED legacyVars
    /\ UNCHANGED auxVars
    /\ UNCHANGED <<opened, container, bind, activeT, tileStats, tileQuality, tileDiff,
                   gpanel, nreq>>

\* runAnalysis, the response is not OK and its payload carries detail
AnalysisError(req, detail) ==
    /\ req \in inflight /\ req.kind = "global"
    /\ inflight' = inflight \ {req}
    /\ alerts' = Alert("Analysis Error: ", ErrorMessage(detail))
    /\ overlay' = "none"
    /\ UNCHANGED legacyVars
    /\ UNCHANGED auxVars
    /\ UNCHANGED <<opened, container, bind, activeT, tileStats, tileQuality, tileDiff,
                   gstate, gpanel, nreq>>

\* runAnalysis, the fetch is rejected
AnalysisFailed(req) ==
    /\ req \in inflight /\ req.kind = "global"
    /\ inflight' = inflight \ {req}
    /\ alerts' = Alert("Analysis Error: ", FetchFailed)
    /\ overlay' = "none"
    /\ UNCHANGED legacyVars
    /\ UNCHANGED auxVars
    /\ UNCHANGED <<opened, container, bind, activeT, tileStats, tileQuality, tileDiff,
                   gstate, gpanel, nreq>>

\* handlePeriodChange(btn) for a button of the global panel, the only buttons
\* setupEventListeners registers it on (the tiles do not exist yet at that
\* time, so btn.closest('.tile-content') is null).  It clears the active class
\* of every period button of the document, the tiles' included.
HandlePeriodChange(btn) ==
    /\ page = "terminal"
    /\ activeT' = [t \in Series |-> ""]
    /\ gpanel' = [gpanel EXCEPT !.active = btn]
    /\ IF gstate.analysisResults = None \/ gstate.fullChartData = None
          \/ gstate.forecast = None
       THEN UNCHANGED gstate
       ELSE gstate' = [gstate EXCEPT
                         !.forecast = UpdateChart(gstate.forecast,
                                                  gstate.fullChartData,
                                                  ParseInt(btn))]
    /\ UNCHANGED legacyVars
    /\ UNCHANGED auxVars
    /\ UNCHANGED <<opened, container, bind, tileStats, tileQuality, tileDiff,
                   overlay, inflight, nreq, alerts>>

-----------------------------------------------------------------------------
(* Legacy card view: expanding a card, the default analysis, updates *)

\* toggleIndicatorCard(card, indicator) up to its await: the class is toggled;
\* a card that expands loads the default analysis unless it is cached
ToggleIndicatorCard(s) ==
    LET isCollapsed == cards[s].collapsed
        cached == DefaultCacheKey(s) \in DOMAIN lstate.analysisCache
    IN  /\ page = "legacy"
        /\ isCollapsed /\ ~cached => nreq < MaxRequests
        /\ cards' = [cards EXCEPT ![s].collapsed = ~isCollapsed]
        /\ IF isCollapsed /\ ~cached
           THEN /\ inflight' = inflight \cup
                      {Request(nreq + 1, "load", s, "ARIMA", DefaultHorizon)}
                /\ nreq' = nreq + 1
                /\ UNCHANGED lstate
           ELSE /\ lstate' = [lstate EXCEPT !.expandedIndicators =
                                IF isCollapsed THEN @ \cup {s} ELSE @ \ {s}]
                /\ UNCHANGED <<inflight, nreq>>
        /\ UNCHANGED <<page, alerts>>
        /\ UNCHANGED terminalVars
        /\ UNCHANGED auxVars

\* loadIndicatorAnalysis, the response is OK; then toggleIndicatorCard resumes
LoadIndicatorAnalysisDone(req) ==
    LET s == req.series
        analysis == ForecastResult(s, req.model_type, req.h_future)
    IN  /\ req \in inflight /\ req.kind = "load"
        /\ inflight' = inflight \ {req}
        /\ cards' = [cards EXCEPT ![s].content = AnalysisContent(analysis),
                                  ![s].forecast = ForecastText(analysis)]
        /\ lstate' = [lstate EXCEPT
                        !.analysisCache = CacheSet(@, CacheKey(s, Params(req.model_type)),
                                                   analysis),
                        !.expandedIndicators = @ \cup {s}]
        /\ UNCHANGED <<page, nreq, alerts>>
        /\ UNCHANGED terminalVars
        /\ UNCHANGED auxVars

\* loadIndicatorAnalysis, the response is not OK; then toggleIndicatorCard resumes
LoadIndicatorAnalysisError(req, detail) ==
    /\ req \in inflight /\ req.kind = "load"
    /\ inflight' = inflight \ {req}
    /\ cards' = [cards EXCEPT ![req.series].content = ErrorState(ErrorMessage(detail))]
    /\ lstate' = [lstate EXCEPT !.expandedIndicators = @ \cup {req.series}]
    /\ UNCHANGED <<page, nreq, alerts>>
    /\ UNCHANGED terminalVars
    /\ UNCHANGED auxVars

\* loadIndicatorAnalysis, the fetch is rejected; then toggleIndicatorCard resumes
LoadIndicatorAnalysisFailed(req) ==
    /\ req \in inflight /\ req.kind = "load"
    /\ inflight' = inflight \ {req}
    /\ cards' = [cards EXCEPT ![req.series].content = ErrorState(FetchFailed)]
    /\ lstate' = [lstate EXCEPT !.expandedIndicators = @ \cup {req.series}]
    /\ UNCHANGED <<page, nreq, alerts>>
    /\ UNCHANGED terminalVars
    /\ UNCHANGED auxVars

\* updateAnalysis up to its fetch (the Update button is part of the analysis
\* content of an expanded card)
UpdateAnalysis(s, modelType, hFuture) ==
    /\ page = "legacy"
    /\ ~cards[s].collapsed /\ cards[s].content.kind = "analysis"
    /\ nreq < MaxRequests
    /\ cards' = [cards EXCEPT ![s].opacity = "0.5"]
    /\ inflight' = inflight \cup {Request(nreq + 1, "update", s, modelType, hFuture)}
    /\ nreq' = nreq + 1
    /\ UNCHANGED <<page, lstate, alerts>>
    /\ UNCHANGED terminalVars
    /\ UNCHANGED auxVars

\* updateAnalysis, the response is OK: fetchAnalysis caches it, the charts,
\* stats and opinion are redrawn; Plotly throws when the chart elements are gone
UpdateAnalysisDone(req) ==
    LET s == req.series
        analysis == ForecastResult(s, req.model_type, req.h_future)
    IN  /\ req \in inflight /\ req.kind = "update"
        /\ inflight' = inflight \ {req}
        /\ lstate' = [lstate EXCEPT
                        !.analysisCache = CacheSet(@, CacheKey(s, Params(req.model_type)),
                                                   analysis)]
        /\ IF cards[s].content.kind = "analysis"
           THEN /\ cards' = [cards EXCEPT
                                ![s].content = RedrawnContent(cards[s].content, analysis),
                                ![s].forecast = ForecastText(analysis),
                                ![s].opacity = "1"]
                /\ UNCHANGED alerts
           ELSE /\ cards' = [cards EXCEPT ![s].opacity = "1"]
                /\ alerts' = Alert("Error updating analysis: ", NoChartElement)
        /\ UNCHANGED <<page, nreq>>
        /\ UNCHANGED terminalVars
        /\ UNCHANGED auxVars

\* updateAnalysis, the response is not OK and its payload carries detail
UpdateAnalysisError(req, detail) ==
    /\ req \in inflight /\ req.kind = "update"
    /\ inflight' = inflight \ {req}
    /\ cards' = [cards EXCEPT ![req.series].opacity = "1"]
    /\ alerts' = Alert("Error updating analysis: ", ErrorMessage(detail))
    /\ UNCHANGED <<page, nreq, lstate>>
    /\ UNCHANGED terminalVars
    /\ UNCHANGED auxVars

\* updateAnalysis, the fetch is rejected
UpdateAnalysisFailed(req) ==
    /\ req \in inflight /\ req.kind = "update"
    /\ inflight' = inflight \ {req}
    /\ cards' = [cards EXCEPT ![req.series].opacity = "1"]
    /\ alerts' = Alert("Error updating analysis: ", FetchFailed)
    /\ UNCHANGED <<page, nreq, lstate>>
    /\ UNCHANGED terminalVars
    /\ UNCHANGED auxVars

-----------------------------------------------------------------------------
(* Legacy card view: the difference-mode buttons *)

\* the most click listeners a diff button carries in the model: a click that
\* would register more is not taken
MaxListeners == 4

\* a click on the diff button of the given mode: every listener of the button
\* runs in registration order; each marks the button active and calls
\* renderDiffChart with its own analysis, which plots it in the clicked mode
\* and adds one more listener to each button (listeners added during the
\* dispatch do not run in it)
DiffModeClick(s, mode) ==
    LET content == cards[s].content
        last == content.listeners[Len(content.listeners)]
    IN  /\ page = "legacy"
        /\ ~cards[s].collapsed /\ content.kind = "analysis"
        /\ 2 * Len(content.listeners) <= MaxListeners
        /\ cards' = [cards EXCEPT
                        ![s].content.charts.diff =
                            [mode |-> mode, comparison |-> last.comparison],
                        ![s].content.listeners = @ \o @]
        /\ UNCHANGED <<page, lstate, inflight, nreq, alerts>>
        /\ UNCHANGED terminalVars
        /\ UNCHANGED auxVars

DiffInit == Init /\ page = "legacy"

DiffNext ==
    \/ \E s \in Series : ToggleIndicatorCard(s)
    \/ \E req \in inflight : LoadIndicatorAnalysisDone(req)
    \/ \E req \in inflight, d \in ErrorDetails : LoadIndicatorAnalysisError(req, d)
    \/ \E req \in inflight : LoadIndicatorAnalysisFailed(req)
    \/ \E s \in Series, m \in ModelTypes, h \in Horizons : UpdateAnalysis(s, m, h)
    \/ \E req \in inflight : UpdateAnalysisDone(req)
    \/ \E req \in inflight, d \in ErrorDetails : UpdateAnalysisError(req, d)
    \/ \E req \in inflight : UpdateAnalysisFailed(req)
    \/ \E s \in Series, mode \in DiffModes : DiffModeClick(s, mode)

DiffSpec == DiffInit /\ [][DiffNext]_vars

-----------------------------------------------------------------------------
(* The calendar panel: loading the calendar, the refresh buttons *)

\* what the calendar handlers leave alone
calendarFrame == <<opened, container, bind, activeT, tileStats, tileQuality, tileDiff,
                   gpanel, overlay, legacyVars, serverVars>>

\* the page right after initializeApp: loadCalendar has sent its request
CalendarInit ==
    /\ opened = [t \in Series |-> FALSE]
    /\ container = [t \in Series |-> FreshCanvas]
    /\ bind = [t \in Series |-> None]
    /\ activeT = [t \in Series |-> "12"]
    /\ tileStats = [t \in Series |-> None]
    /\ tileQuality = [t \in Series |-> None]
    /\ tileDiff = [t \in Series |-> None]
    /\ gstate = [currentIndicator |-> None, analysisResults |-> None,
                 fullChartData |-> None, forecast |-> None, diff |-> None,
                 calendar |-> None]
    /\ gpanel = [stats |-> None, quality |-> None, active |-> "12"]
    /\ overlay = "none"
    /\ inflight = {CalendarRequest(0, "")}
    /\ nreq = 0
    /\ alerts = <<>>
    /\ page = "terminal"
    /\ cards = [s \in Series |-> CreateIndicatorCard(s)]
    /\ lstate = [expandedIndicators |-> {}, analysisCache |-> <<>>]
    /\ list = Tiles(<<>>)
    /\ calendarLoading = "flex"
    /\ refreshBtn = [b \in RefreshButtons |-> IdleButton(b)]
    /\ ServerStart

\* the finally of the refresh handler that awaits this loadCalendar, if any
RestoreAwaiting(req) ==
    IF req.model_type = ""
    THEN refreshBtn
    ELSE [refreshBtn EXCEPT ![req.model_type] = IdleButton(req.model_type)]

\* loadCalendar, the response is JSON: state.calendar is set and rendered
LoadCalendarDone(req, data) ==
    /\ req \in inflight /\ req.kind = "calendar"
    /\ inflight' = inflight \ {req}
    /\ gstate' = [gstate EXCEPT !.calendar = CalendarObject(data)]
    /\ list' = RenderCalendar(data)
    /\ calendarLoading' = "none"
    /\ refreshBtn' = RestoreAwaiting(req)
    /\ UNCHANGED <<nreq, alerts>>
    /\ UNCHANGED calendarFrame

\* loadCalendar, the fetch is rejected or the body is not JSON
LoadCalendarFailed(req) ==
    /\ req \in inflight /\ req.kind = "calendar"
    /\ inflight' = inflight \ {req}
    /\ list' = CalendarError(FetchFailed)
    /\ calendarLoading' = "none"
    /\ refreshBtn' = RestoreAwaiting(req)
    /\ UNCHANGED <<gstate, nreq, alerts>>
    /\ UNCHANGED calendarFrame

\* refreshStocksData / refreshEconomicData up to the fetch (a disabled button
\* receives no click)
RefreshData(b) ==
    /\ page = "terminal"
    /\ ~refreshBtn[b].disabled
    /\ nreq < MaxRequests
    /\ refreshBtn' = [refreshBtn EXCEPT ![b] = UpdatingButton]
    /\ inflight' = inflight \cup {RefreshRequest(nreq + 1, b)}
    /\ nreq' = nreq + 1
    /\ UNCHANGED <<gstate, alerts, list, calendarLoading>>
    /\ UNCHANGED calendarFrame

\* a refresh handler that reloads the calendar whatever the status is
RefreshDataDoneAlwaysReloads(req, status, message) ==
    LET b == req.model_type
    IN  /\ req \in inflight /\ req.kind = "refresh"
        /\ alerts' = Alert("", RefreshSuccessText(b))
        /\ calendarLoading' = "flex"
        /\ list' = Tiles(<<>>)
        /\ inflight' = (inflight \ {req}) \cup {CalendarRequest(req.id, b)}
        /\ UNCHANGED refreshBtn
        /\ UNCHANGED <<gstate, nreq>>
        /\ UNCHANGED calendarFrame

\* the refresh handler, the response is JSON with a status: success reloads
\* the calendar (loadCalendar up to its fetch), anything else is reported
RefreshDataDone(req, status, message) ==
    LET b == req.model_type
    IN  /\ req \in inflight /\ req.kind = "refresh"
        /\ IF status = "success"
           THEN /\ alerts' = Alert("", RefreshSuccessText(b))
                /\ calendarLoading' = "flex"
                /\ list' = Tiles(<<>>)
                /\ inflight' = (inflight \ {req}) \cup {CalendarRequest(req.id, b)}
                /\ UNCHANGED refreshBtn
           ELSE /\ alerts' = Alert("Blad aktualizacji: ", RefreshErrorMessage(message))
                /\ inflight' = inflight \ {req}
                /\ refreshBtn' = [refreshBtn EXCEPT ![b] = IdleButton(b)]
                /\ UNCHANGED <<list, calendarLoading>>
        /\ UNCHANGED <<gstate, nreq>>
        /\ UNCHANGED calendarFrame

\* the refresh handler, the fetch is rejected or the body is not JSON
RefreshDataFailed(req) ==
    LET b == req.model_type
    IN  /\ req \in inflight /\ req.kind = "refresh"
        /\ inflight' = inflight \ {req}
        /\ alerts' = Alert("", RefreshConnectionText(b))
        /\ refreshBtn' = [refreshBtn EXCEPT ![b] = IdleButton(b)]
        /\ UNCHANGED <<gstate, nreq, list, calendarLoading>>
        /\ UNCHANGED calendarFrame

\* data.status of a refresh response ("" for a response without one)
RefreshStatuses == {"success", "error", ""}

CalendarNext ==
    \/ \E req \in inflight, data \in Calendars : LoadCalendarDone(req, data)
    \/ \E req \in inflight : LoadCalendarFailed(req)
    \/ \E b \in RefreshButtons : RefreshData(b)
    \/ \E req \in inflight, st \in RefreshStatuses, m \in RefreshMessages :
          RefreshDataDone(req, st, m)
    \/ \E req \in inflight : RefreshDataFailed(req)

CalendarSpec == CalendarInit /\ [][CalendarNext]_vars

-----------------------------------------------------------------------------
(* Analyses of an open tile: tile 1 has been opened and shows its           *)
(* precomputed model; the user runs analyses in the tile and in the global  *)
(* panel and clicks period buttons; responses arrive in any order.          *)

\* the precomputed result tile 1 shows
OpenedResult == ForecastResult(1, "ARIMA", PrecomputedHorizon)

\* the page after tile 1 was opened and its precomputed model rendered; nreq
\* counts the commands from here on
OpenedInit ==
    /\ opened = [t \in Series |-> t = 1]
    /\ container = [t \in Series |->
                      IF t = 1
                      THEN RenderTileForecastChart(FreshCanvas, OpenedResult,
                                                   <<DefaultPeriod>>)
                      ELSE FreshCanvas]
    /\ bind = [t \in Series |-> IF t = 1 THEN [kind |-> "canvas"] ELSE None]
    /\ activeT = [t \in Series |-> "12"]
    /\ tileStats = [t \in Series |->
                      IF t = 1 THEN PrecomputedStats(OpenedResult, "ARIMA") ELSE None]
    /\ tileQuality = [t \in Series |->
                        IF t = 1 THEN RenderTileQuality(OpenedResult) ELSE None]
    /\ tileDiff = [t \in Series |->
                     IF t = 1 THEN RenderTileDiffChart(OpenedResult) ELSE None]
    /\ gstate = [currentIndicator |-> Indicator(1), analysisResults |-> OpenedResult,
                 fullChartData |-> [historical |-> OpenedResult.historical,
                                    forecast |-> OpenedResult.forecast],
                 forecast |-> None, diff |-> None, calendar |-> CalendarObject(ValidCalendar)]
    /\ gpanel = [stats |-> None, quality |-> None, active |-> "12"]
    /\ overlay = "none"
    /\ inflight = {}
    /\ nreq = 0
    /\ alerts = <<>>
    /\ page = "terminal"
    /\ cards = [s \in Series |-> CreateIndicatorCard(s)]
    /\ lstate = [expandedIndicators |-> {}, analysisCache |-> <<>>]
    /\ list = RenderCalendar(ValidCalendar)
    /\ calendarLoading = "none"
    /\ refreshBtn = [b \in RefreshButtons |-> IdleButton(b)]
    /\ cache = [s \in ServerSeries |->
                  IF s = 1 THEN CacheEntry(1, "ARIMA", 1) ELSE Absent]
    /\ running = {}
    /\ calls = {Call(k, "sweep", KnownSeries[k], 1,
                     IF KnownSeries[k] = 1 THEN "returned" ELSE "failed",
                     IF KnownSeries[k] = 1 THEN CacheEntry(1, "ARIMA", 1) ELSE Absent) :
                   k \in 1..Len(KnownSeries)}
    /\ invoked = [s \in ServerSeries |-> 1]
    /\ sweep = [next |-> Len(KnownSeries) + 1,
                visits |-> [s \in ServerSeries |-> 1], done |-> TRUE]

OpenedNext ==
    \/ \E t \in Series, btn \in TilePeriodButtons : TilePeriodClick(t, btn)
    \/ \E t \in Series, m \in ModelTypes, h \in Horizons : RunTileAnalysis(t, m, h)
    \/ \E req \in inflight : TileAnalysisDone(req)
    \/ \E req \in inflight, d \in ErrorDetails : TileAnalysisError(req, d)
    \/ \E req \in inflight : TileAnalysisFailed(req)
    \/ \E m \in ModelTypes, h \in Horizons : RunAnalysis(m, h)
    \/ \E req \in inflight : AnalysisDone(req)
    \/ \E req \in inflight, d \in ErrorDetails : AnalysisError(req, d)
    \/ \E req \in inflight : AnalysisFailed(req)
    \/ \E btn \in GlobalPeriodButtons : HandlePeriodChange(btn)

OpenedSpec == OpenedInit /\ [][OpenedNext]_vars

-----------------------------------------------------------------------------
(* Two opened tiles: both tiles were opened, tile 1 first, and each shows  *)
(* its precomputed model; the user opens tiles again, runs analyses in     *)
(* them and clicks their period buttons                                     *)

\* the precomputed result tile t shows
TileResult(t) == ForecastResult(t, "ARIMA", PrecomputedHorizon)

TilesInit ==
    /\ opened = [t \in Series |-> TRUE]
    /\ container = [t \in Series |->
                      RenderTileForecastChart(FreshCanvas, TileResult(t),
                                              <<DefaultPeriod>>)]
    /\ bind = [t \in Series |-> [kind |-> "canvas"]]
    /\ activeT = [t \in Series |-> "12"]
    /\ tileStats = [t \in Series |-> PrecomputedStats(TileResult(t), "ARIMA")]
    /\ tileQuality = [t \in Series |-> RenderTileQuality(TileResult(t))]
    /\ tileDiff = [t \in Series |-> RenderTileDiffChart(TileResult(t))]
    /\ gstate = [currentIndicator |-> Indicator(2), analysisResults |-> TileResult(2),
                 fullChartData |-> [historical |-> TileResult(2).historical,
                                    forecast |-> TileResult(2).forecast],
                 forecast |-> None, diff |-> None, calendar |-> CalendarObject(ValidCalendar)]
    /\ gpanel = [stats |-> None, quality |-> None, active |-> "12"]
    /\ overlay = "none"
    /\ inflight = {}
    /\ nreq = 0
    /\ alerts = <<>>
    /\ page = "terminal"
    /\ cards = [s \in Series |-> CreateIndicatorCard(s)]
    /\ lstate = [expandedIndicators |-> {}, analysisCache |-> <<>>]
    /\ list = RenderCalendar(ValidCalendar)
    /\ calendarLoading = "none"
    /\ refreshBtn = [b \in RefreshButtons |-> IdleButton(b)]
    /\ ServerStart

TilesNext ==
    \/ \E t \in Series : OpenTile(t)
    \/ \E req \in inflight, e \in PrecomputedErrors : PrecomputedAbsent(req, e)
    \/ \E req \in inflight, m \in ModelTypes : PrecomputedReady(req, m)
    \/ \E req \in inflight : PrecomputedFailed(req)
    \/ \E t \in Series, btn \in TilePeriodButtons : TilePeriodClick(t, btn)
    \/ \E t \in Series, m \in ModelTypes, h \in Horizons : RunTileAnalysis(t, m, h)
    \/ \E req \in inflight : TileAnalysisDone(req)
    \/ \E req \in inflight, d \in ErrorDetails : TileAnalysisError(req, d)
    \/ \E req \in inflight : TileAnalysisFailed(req)

TilesSpec == TilesInit /\ [][TilesNext]_vars

-----------------------------------------------------------------------------
(* A tile while it loads: tile 1 was opened and the fetch of its            *)
(* precomputed model is in flight; the user runs analyses in the tile and   *)
(* clicks its period buttons, and the responses arrive in any order         *)

\* the request of the precomputed model of tile 1
LoadingRequest == Request(0, "precomputed", 1, "", 0)

\* the page after tile 1 was opened, loadPrecomputedModel waiting for its
\* response; nreq counts the commands from here on
LoadingInit ==
    /\ opened = [t \in Series |-> t = 1]
    /\ container = [t \in Series |-> IF t = 1 THEN Spinner ELSE FreshCanvas]
    /\ bind = [t \in Series |-> None]
    /\ activeT = [t \in Series |-> "12"]
    /\ tileStats = [t \in Series |-> None]
    /\ tileQuality = [t \in Series |-> None]
    /\ tileDiff = [t \in Series |-> None]
    /\ gstate = [currentIndicator |-> Indicator(1), analysisResults |-> None,
                 fullChartData |-> None, forecast |-> None, diff |-> None,
                 calendar |-> CalendarObject(ValidCalendar)]
    /\ gpanel = [stats |-> None, quality |-> None, active |-> "12"]
    /\ overlay = "none"
    /\ inflight = {LoadingRequest}
    /\ nreq = 0
    /\ alerts = <<>>
    /\ page = "terminal"
    /\ cards = [s \in Series |-> CreateIndicatorCard(s)]
    /\ lstate = [expandedIndicators |-> {}, analysisCache |-> <<>>]
    /\ list = RenderCalendar(ValidCalendar)
    /\ calendarLoading = "none"
    /\ refreshBtn = [b \in RefreshButtons |-> IdleButton(b)]
    /\ ServerStart

LoadingNext ==
    \/ \E req \in inflight, e \in PrecomputedErrors : PrecomputedAbsent(req, e)
    \/ \E req \in inflight, m \in ModelTypes : PrecomputedReady(req, m)
    \/ \E req \in inflight : PrecomputedFailed(req)
    \/ \E t \in Series, btn \in TilePeriodButtons : TilePeriodClick(t, btn)
    \/ \E t \in Series, m \in ModelTypes, h \in Horizons : RunTileAnalysis(t, m, h)
    \/ \E req \in inflight : TileAnalysisDone(req)
    \/ \E req \in inflight, d \in ErrorDetails : TileAnalysisError(req, d)
    \/ \E req \in inflight : TileAnalysisFailed(req)

LoadingSpec == LoadingInit /\ [][LoadingNext]_vars

-----------------------------------------------------------------------------
(* Responses that carry a malformed ForecastResult: one array is shorter than *)
(* the dates it goes with                                                    *)

\* the array of the result that lacks its last element
Defects == {"forecast.values", "forecast.sigma_1_up", "historical.values"}

DropLast(seq) == SubSeq(seq, 1, Len(seq) - 1)

\* the response body: result with the defect
Malform(result, defect) ==
    IF defect = "forecast.values"
    THEN [result EXCEPT !.forecast.values = DropLast(@)]
    ELSE IF defect = "forecast.sigma_1_up"
    THEN [result EXCEPT !.forecast.sigma_1_up = DropLast(@)]
    ELSE [result EXCEPT !.historical.values = DropLast(@)]

\* runTileAnalysis, the response is OK and its body is malformed: no statement
\* of the try block inspects the lengths, the renderers run as for any body
TileAnalysisDoneMalformed(req, defect) ==
    LET t == req.series
        analysisData == Malform(ForecastResult(t, req.model_type, req.h_future), defect)
    IN  /\ req \in inflight /\ req.kind = "tile"
        /\ inflight' = inflight \ {req}
        /\ container' = [container EXCEPT
                           ![t] = RenderTileForecastChart(container[t], analysisData,
                                                          <<DefaultPeriod>>)]
        /\ bind' = [bind EXCEPT ![t] = [kind |-> "closure", data |-> analysisData]]
        /\ tileDiff' = [tileDiff EXCEPT ![t] = RenderTileDiffChart(analysisData)]
        /\ tileStats' = [tileStats EXCEPT
                           ![t] = RenderTileStats(analysisData, req.model_type)]
        /\ tileQuality' = [tileQuality EXCEPT ![t] = RenderTileQuality(analysisData)]
        /\ overlay' = "none"
        /\ UNCHANGED legacyVars
        /\ UNCHANGED auxVars
        /\ UNCHANGED <<opened, activeT, gstate, gpanel, nreq, alerts>>

\* runAnalysis, the response is OK and its body is malformed
AnalysisDoneMalformed(req, defect) ==
    LET analysisData ==
            Malform(ForecastResult(req.series, req.model_type, req.h_future), defect)
    IN  /\ req \in inflight /\ req.kind = "global"
        /\ inflight' = inflight \ {req}
        /\ gstate' = [gstate EXCEPT
                        !.analysisResults = analysisData,
                        !.fullChartData = [historical |-> analysisData.historical,
                                           forecast |-> analysisData.forecast],
                        !.forecast = RenderForecastChart(analysisData),
                        !.diff = RenderTileDiffChart(analysisData)]
        /\ gpanel' = [gpanel EXCEPT
                        !.stats = RenderStats(analysisData, req.model_type),
                        !.quality = RenderModelQuality(analysisData)]
        /\ overlay' = "none"
        /\ UNCHANGED legacyVars
        /\ UNCHANGED auxVars
        /\ UNCHANGED <<opened, container, bind, activeT, tileStats, tileQuality,
                       tileDiff, nreq, alerts>>

MalformedNext ==
    \/ \E t \in Series : \E btn \in TilePeriodButtons : TilePeriodClick(t, btn)
    \/ \E t \in Series : \E m \in ModelTypes : \E h \in Horizons :
          RunTileAnalysis(t, m, h)
    \/ \E req \in inflight : \E defect \in Defects :
          TileAnalysisDoneMalformed(req, defect)
    \/ \E m \in ModelTypes : \E h \in Horizons : RunAnalysis(m, h)
    \/ \E req \in inflight : \E defect \in Defects : AnalysisDoneMalformed(req, defect)
    \/ \E btn \in GlobalPeriodButtons : HandlePeriodChange(btn)

MalformedSpec == OpenedInit /\ [][MalformedNext]_vars

-----------------------------------------------------------------------------
(* The parameters of an analyze request, read from the inputs *)

\* the options of a model type select
ModelKinds == {"ARIMA", "MovingAverage", "MonteCarlo"}

\* what a number input can hold when Run is clicked: nothing, zero, a negative
\* number, a positive number
InputValues == {"", "0", "-3", "6"}

\* the model-specific field of the request body for a model kind
KindField(modelType) ==
    IF modelType = "ARIMA" THEN "order"
    ELSE IF modelType = "MovingAverage" THEN "windows" ELSE "simulations"

\* JSON.stringify of the body: n_test and h_future as cells (NaN is written as
\* null), and the name of the model-specific field it carries ("" for none)
AnalyzeBody(id, kind, s, modelType, nTest, hFuture, kindField) ==
    [id |-> id, kind |-> kind, series_id |-> s, model_type |-> modelType,
     n_test |-> nTest, h_future |-> hFuture, kindField |-> kindField]

\* getModelParams(modelType): n_test and h_future are parseInt of the inputs
GetModelParams(modelType, nTestValue, hFutureValue) ==
    [n_test |-> ParseInt(nTestValue), h_future |-> ParseInt(hFutureValue),
     kindField |-> KindField(modelType)]

\* the params of runTileAnalysis: defaults for falsy values, order for ARIMA
TileParams(modelType, nTestValue, hFutureValue) ==
    [n_test |-> <<OrDefault(ParseInt(nTestValue), 12)>>,
     h_future |-> <<OrDefault(ParseInt(hFutureValue), 6)>>,
     kindField |-> IF modelType = "ARIMA" THEN "order" ELSE ""]

\* runTileAnalysis up to its fetch, with the content of the tile's inputs
RunTileAnalysisInputs(t, modelType, nTestValue, hFutureValue) ==
    LET params == TileParams(modelType, nTestValue, hFutureValue)
    IN  /\ opened[t]
        /\ nreq < MaxRequests
        /\ overlay' = "flex"
        /\ inflight' = inflight \cup
             {AnalyzeBody(nreq + 1, "tile", t, modelType, params.n_test,
                          params.h_future, params.kindField)}
        /\ nreq' = nreq + 1
        /\ UNCHANGED legacyVars
        /\ UNCHANGED auxVars
        /\ UNCHANGED <<opened, container, bind, activeT, tileStats, tileQuality,
                       tileDiff, gstate, gpanel, alerts>>

\* runAnalysis up to its fetch, with the content of the panel's inputs
RunAnalysisInputs(modelType, nTestValue, hFutureValue) ==
    LET params == GetModelParams(modelType, nTestValue, hFutureValue)
    IN  /\ gstate.currentIndicator # None
        /\ nreq < MaxRequests
        /\ overlay' = "flex"
        /\ inflight' = inflight \cup
             {AnalyzeBody(nreq + 1, "global", gstate.currentIndicator.series_id,
                          modelType, params.n_test, params.h_future,
                          params.kindField)}
        /\ nreq' = nreq + 1
        /\ UNCHANGED legacyVars
        /\ UNCHANGED auxVars
        /\ UNCHANGED <<opened, container, bind, activeT, tileStats, tileQuality,
                       tileDiff, gstate, gpanel, alerts>>

ParamsNext ==
    \/ \E t \in Series : \E m \in ModelKinds : \E n, h \in InputValues :
          RunTileAnalysisInputs(t, m, n, h)
    \/ \E m \in ModelKinds : \E n, h \in InputValues : RunAnalysisInputs(m, n, h)

ParamsSpec == OpenedInit /\ [][ParamsNext]_vars

-----------------------------------------------------------------------------
(* The ARIMA order of a tile's analyze request, read from the order inputs *)

\* the max attributes of the inputs .order-p / .order-q and .order-d
MaxOrderPQ == 5
MaxOrderD == 2

\* the orders the inputs accept (min = 0)
Orders == {<<p, d, q>> : p \in 0..MaxOrderPQ, d \in 0..MaxOrderD, q \in 0..MaxOrderPQ}

\* the value of a number input the user entered n into
InputValue(n) ==
    CASE n = 0 -> "0" [] n = 1 -> "1" [] n = 2 -> "2"
      [] n = 3 -> "3" [] n = 4 -> "4" [] n = 5 -> "5"

\* orderP, orderD, orderQ of runTileAnalysis: parseInt(value) || 1
TileOrder(pValue, dValue, qValue) ==
    <<OrDefault(ParseInt(pValue), 1), OrDefault(ParseInt(dValue), 1),
      OrDefault(ParseInt(qValue), 1)>>

\* JSON.stringify of the body of an ARIMA request whose n-test and h-future
\* inputs hold their defaults
OrderBody(id, s, order) ==
    [id |-> id, kind |-> "tile", series_id |-> s, model_type |-> "ARIMA",
     n_test |-> <<12>>, h_future |-> <<6>>, order |-> order]

\* runTileAnalysis up to its fetch, model type ARIMA, with the content of the
\* tile's order inputs
RunTileAnalysisOrder(t, pValue, dValue, qValue) ==
    /\ opened[t]
    /\ nreq < MaxRequests
    /\ overlay' = "flex"
    /\ inflight' = inflight \cup
         {OrderBody(nreq + 1, t, TileOrder(pValue, dValue, qValue))}
    /\ nreq' = nreq + 1
    /\ UNCHANGED legacyVars
    /\ UNCHANGED auxVars
    /\ UNCHANGED <<opened, container, bind, activeT, tileStats, tileQuality,
                   tileDiff, gstate, gpanel, alerts>>

OrderNext ==
    \E t \in Series : \E order \in Orders :
        RunTileAnalysisOrder(t, InputValue(order[1]), InputValue(order[2]),
                             InputValue(order[3]))

OrderSpec == OpenedInit /\ [][OrderNext]_vars

-----------------------------------------------------------------------------
(* The backend at work: the precompute sweep, refresh requests for one      *)
(* series, and the precomputed endpoint serving the tiles                   *)

\* what the backend's own steps leave alone
serverFrame == <<terminalVars, inflight, alerts, legacyVars, calendarVars>>

\* the process has started and the terminal page is loaded
ServerInit == Init /\ page = "terminal"

\* getOrCompute that starts a closure of its own for every call
GetOrComputeNoSingleFlight(id, by, s) ==
    /\ UNCHANGED cache
    /\ IF cache[s] # Absent
       THEN /\ calls' = calls \cup {Call(id, by, s, 0, "returned", cache[s])}
            /\ UNCHANGED <<running, invoked>>
       ELSE /\ running' = running \cup {Computation(s, invoked[s] + 1)}
            /\ invoked' = [invoked EXCEPT ![s] = @ + 1]
            /\ calls' = calls \cup {Call(id, by, s, invoked[s] + 1, "pending", Absent)}

\* ForecastCache.getOrCompute(s, computeFn) up to the point where the caller
\* returns or waits: an entry is returned at once; a caller that finds the
\* computation of its key in flight awaits it; otherwise the call starts the
\* closure
GetOrCompute(id, by, s) ==
    LET flights == {f \in running : f.key = s}
    IN  /\ UNCHANGED cache
        /\ IF cache[s] # Absent
           THEN /\ calls' = calls \cup {Call(id, by, s, 0, "returned", cache[s])}
                /\ UNCHANGED <<running, invoked>>
           ELSE IF flights # {}
           THEN /\ \E f \in flights :
                     calls' = calls \cup {Call(id, by, s, f.flight, "pending", Absent)}
                /\ UNCHANGED <<running, invoked>>
           ELSE /\ running' = running \cup {Computation(s, invoked[s] + 1)}
                /\ invoked' = [invoked EXCEPT ![s] = @ + 1]
                /\ calls' = calls \cup
                              {Call(id, by, s, invoked[s] + 1, "pending", Absent)}

\* the sweep calls of getOrCompute that have not returned: the busy workers
BusyWorkers == {c \in calls : c.by = "sweep" /\ c.status = "pending"}

\* an iteration that a failed series brings to a halt
SweepTakeUnlessFailed ==
    /\ ~sweep.done
    /\ sweep.next <= Len(KnownSeries)
    /\ Cardinality(BusyWorkers) < PoolSize
    /\ ~ \E c \in calls : c.by = "sweep" /\ c.status = "failed"
    /\ GetOrCompute(sweep.next, "sweep", KnownSeries[sweep.next])
    /\ sweep' = [sweep EXCEPT !.next = @ + 1,
                              !.visits[KnownSeries[sweep.next]] = @ + 1]
    /\ UNCHANGED nreq
    /\ UNCHANGED serverFrame

\* PrecomputeScheduler: a free worker takes the next series of the iteration
SweepTake ==
    /\ ~sweep.done
    /\ sweep.next <= Len(KnownSeries)
    /\ Cardinality(BusyWorkers) < PoolSize
    /\ GetOrCompute(sweep.next, "sweep", KnownSeries[sweep.next])
    /\ sweep' = [sweep EXCEPT !.next = @ + 1,
                              !.visits[KnownSeries[sweep.next]] = @ + 1]
    /\ UNCHANGED nreq
    /\ UNCHANGED serverFrame

\* PrecomputeScheduler: the iteration is exhausted and every worker is back
SweepEnd ==
    /\ ~sweep.done
    /\ sweep.next > Len(KnownSeries)
    /\ BusyWorkers = {}
    /\ sweep' = [sweep EXCEPT !.done = TRUE]
    /\ UNCHANGED <<cache, running, calls, invoked, nreq>>
    /\ UNCHANGED serverFrame

\* POST refresh/{scope} for one series: a scheduler-style getOrCompute
RefreshSeries(s) ==
    /\ nreq < MaxRequests
    /\ nreq' = nreq + 1
    /\ GetOrCompute(nreq + 1, "refresh", s)
    /\ UNCHANGED sweep
    /\ UNCHANGED serverFrame

\* the end of a compute closure: selectBest over the candidate runs; on
\* success the entry is put and handed to every caller awaiting this
\* computation, on NoModelConvergedError nothing is put, the failure is logged
\* and the awaiting callers get it
ComputeDone(f, runs) ==
    LET best == SelectBest(runs)
        entry == IF best = 0 THEN Absent
                 ELSE CacheEntry(f.key, Candidates[best], f.flight)
    IN  /\ f \in running
        /\ running' = running \ {f}
        /\ cache' = IF best = 0 THEN cache ELSE [cache EXCEPT ![f.key] = entry]
        /\ calls' = {IF c.key = f.key /\ c.flight = f.flight /\ c.status = "pending"
                     THEN [c EXCEPT !.status = IF best = 0 THEN "failed" ELSE "returned",
                                    !.entry = entry]
                     ELSE c : c \in calls}
        /\ UNCHANGED <<invoked, sweep, nreq>>
        /\ UNCHANGED serverFrame

\* GET precomputed/{seriesId}: ForecastCache.get answers from the cache as it
\* is, and loadPrecomputedModel handles the response
ServePrecomputed(req) ==
    /\ req \in inflight /\ req.kind = "precomputed"
    /\ IF cache[req.series] = Absent
       THEN \E error \in PrecomputedErrors : PrecomputedAbsent(req, error)
       ELSE PrecomputedReady(req, cache[req.series].modelKind)

\* the candidate runs in which at most one candidate converges
SingleSurvivorRuns ==
    {runs \in CandidateRuns :
        /\ Cardinality({i \in 1..Len(runs) : runs[i].ok}) <= 1
        /\ \A i \in 1..Len(runs) : runs[i].ok => runs[i] = RunConverged(1, 1)}

\* the sweep alone, its closures ending with every combination of candidate
\* outcomes
SweepNext ==
    \/ SweepTake
    \/ SweepEnd
    \/ \E f \in running : \E runs \in CandidateRuns : ComputeDone(f, runs)

SweepSpec == ServerInit /\ [][SweepNext]_vars

\* the workers run, and every model fit ends (it converges or fails)
ServerFairness ==
    /\ WF_vars(SweepTake)
    /\ WF_vars(SweepEnd)
    /\ WF_vars(\E f \in running : \E runs \in CandidateRuns : ComputeDone(f, runs))

SweepFairSpec == SweepSpec /\ ServerFairness

\* the sweep and refresh calls for single series
CacheNext ==
    \/ SweepTake
    \/ SweepEnd
    \/ \E s \in ServerSeries : RefreshSeries(s)
    \/ \E f \in running : \E runs \in SingleSurvivorRuns : ComputeDone(f, runs)

CacheSpec == ServerInit /\ [][CacheNext]_vars

\* the backend serving the tiles of the terminal page while it sweeps
ServerNext ==
    \/ SweepTake
    \/ SweepEnd
    \/ \E f \in running : \E runs \in SingleSurvivorRuns : ComputeDone(f, runs)
    \/ \E t \in Series : OpenTile(t)
    \/ \E req \in inflight : ServePrecomputed(req)

ServerSpec == ServerInit /\ [][ServerNext]_vars

-----------------------------------------------------------------------------

Next ==
    \/ \E t \in Series : OpenTile(t)
    \/ \E req \in inflight, e \in PrecomputedErrors : PrecomputedAbsent(req, e)
    \/ \E req \in inflight, m \in ModelTypes : PrecomputedReady(req, m)
    \/ \E req \in inflight : PrecomputedFailed(req)
    \/ \E t \in Series, btn \in TilePeriodButtons : TilePeriodClick(t, btn)
    \/ \E t \in Series, m \in ModelTypes, h \in Horizons : RunTileAnalysis(t, m, h)
    \/ \E req \in inflight : TileAnalysisDone(req)
    \/ \E req \in inflight, d \in ErrorDetails : TileAnalysisError(req, d)
    \/ \E req \in inflight : TileAnalysisFailed(req)
    \/ RunAnalysisNoIndicator
    \/ \E m \in ModelTypes, h \in Horizons : RunAnalysis(m, h)
    \/ \E req \in inflight : AnalysisDone(req)
    \/ \E req \in inflight, d \in ErrorDetails : AnalysisError(req, d)
    \/ \E req \in inflight : AnalysisFailed(req)
    \/ \E btn \in GlobalPeriodButtons : HandlePeriodChange(btn)
    \/ \E s \in Series : ToggleIndicatorCard(s)
    \/ \E req \in inflight : LoadIndicatorAnalysisDone(req)
    \/ \E req \in inflight, d \in ErrorDetails : LoadIndicatorAnalysisError(req, d)
    \/ \E req \in inflight : LoadIndicatorAnalysisFailed(req)
    \/ \E s \in Series, m \in ModelTypes, h \in Horizons : UpdateAnalysis(s, m, h)
    \/ \E req \in inflight : UpdateAnalysisDone(req)
    \/ \E req \in inflight, d \in ErrorDetails : UpdateAnalysisError(req, d)
    \/ \E req \in inflight : UpdateAnalysisFailed(req)

Spec == Init /\ [][Next]_vars

-----------------------------------------------------------------------------
(* What the charts on screen show *)

\* the forecast chart of tile t, if its canvas carries one
HasTileChart(t) == container[t].kind = "canvas" /\ container[t].chart # None

\* every forecast chart on screen
Charts ==
    {container[t].chart : t \in {u \in Series : HasTileChart(u)}}
        \cup (IF gstate.forecast # None THEN {gstate.forecast} ELSE {})

\* number of forecast dates, and of historical dates, on the axis of chart c
F(c) == Len(c.src.forecast.dates)
H(c) == Len(c.labels) - F(c)

\* number of observations of the full history chart c was composed from
N(c) == Len(c.src.historical.dates)

\* the dataset of chart c with the given label
Dataset(c, label) ==
    c.datasets[CHOOSE k \in 1..Len(c.datasets) : c.datasets[k].label = label]

BandLabels == {"+2s RMSE", "+1s RMSE", "-1s RMSE", "-2s RMSE"}

\* the band of a forecast that a dataset label names
BandOf(forecast, label) ==
    CASE label = "+2s RMSE" -> forecast.sigma_2_up
      [] label = "+1s RMSE" -> forecast.sigma_1_up
      [] label = "-1s RMSE" -> forecast.sigma_1_down
      [] label = "-2s RMSE" -> forecast.sigma_2_down

-----------------------------------------------------------------------------
\* C1: a chart windowed with LastN(count) shows exactly the last
\* min(count, len) observations of the full history it was composed from: its
\* historical dates and values are the suffix starting at max(0, len - count),
\* the whole history when count exceeds it, in the tiles and the global panel.
C1_LastNShowsSuffix ==
    \A c \in Charts :
        c.window # <<>> =>
            LET k == Min(c.window[1], N(c))
            IN  /\ H(c) = k
                /\ \A i \in 1..k :
                     /\ c.labels[i] = c.src.historical.dates[N(c) - k + i]
                     /\ Dataset(c, "Historical").data[i]
                          = <<c.src.historical.values[N(c) - k + i]>>

\* a tile chart and the global chart both cut the long history down to 12
C1_Witness ==
    /\ HasTileChart(1)
    /\ container[1].chart.window = <<12>>
    /\ H(container[1].chart) = 12 /\ N(container[1].chart) > 12
    /\ gstate.forecast # None
    /\ gstate.forecast.window = <<12>>
    /\ H(gstate.forecast) = 12 /\ N(gstate.forecast) > 12

-----------------------------------------------------------------------------
\* the {historical, forecast} pair of a result
FullChartData(r) == [historical |-> r.historical, forecast |-> r.forecast]

\* C2: windowing never changes the result it is applied to: whatever periods
\* were selected, canvas._fullData, the data bound to the period buttons,
\* state.analysisResults and state.fullChartData are results exactly as the
\* server sent them (full history, forecast, comparison), every tile chart is
\* composed from its canvas's full data, and the comparison on the diff chart
\* is the one of a result.
C2_WindowingKeepsResult ==
    /\ \A t \in Series :
         /\ container[t].kind = "canvas" /\ container[t].fullData # None =>
              /\ container[t].fullData \in Results
              /\ container[t].chart.src = FullChartData(container[t].fullData)
         /\ bind[t].kind = "closure" => bind[t].data \in Results
         /\ tileDiff[t] # None =>
              \E r \in Results : tileDiff[t].comparison = r.comparison
    /\ gstate.analysisResults # None => gstate.analysisResults \in Results
    /\ gstate.fullChartData # None =>
         \E r \in Results : gstate.fullChartData = FullChartData(r)
    /\ gstate.forecast # None =>
         \E r \in Results : gstate.forecast.src = FullChartData(r)

\* after the first render with 12 a larger window was selected on the long
\* series, and the whole history is shown
C2_Witness ==
    /\ HasTileChart(1)
    /\ container[1].chart.window # <<12>>
    /\ H(container[1].chart) = LongHist
    /\ gstate.forecast # None /\ gstate.forecast.window = <<12>>

\* C3: every series a composer emits (historical, forecast and each band
\* series) has exactly the length of the combined date axis, which is the
\* windowed historical dates followed by the forecast dates; the global chart
\* emits all four band series, the tile chart the one-sigma pair.
C3_SeriesMatchAxis ==
    \A c \in Charts :
        /\ H(c) >= 1
        /\ SubSeq(c.labels, 1, H(c))
             = SubSeq(c.src.historical.dates, N(c) - H(c) + 1, N(c))
        /\ SubSeq(c.labels, H(c) + 1, Len(c.labels)) = c.src.forecast.dates
        /\ \A k \in 1..Len(c.datasets) : Len(c.datasets[k].data) = Len(c.labels)
        /\ {c.datasets[k].label : k \in 1..Len(c.datasets)} \cap BandLabels
             \in {BandLabels, {"+1s RMSE", "-1s RMSE"}}
        /\ c = gstate.forecast =>
             BandLabels \subseteq {c.datasets[k].label : k \in 1..Len(c.datasets)}

\* a windowed tile chart and a windowed global chart with its four bands
C3_Witness ==
    /\ HasTileChart(1) /\ H(container[1].chart) < N(container[1].chart)
    /\ gstate.forecast # None
    /\ H(gstate.forecast) < N(gstate.forecast)
    /\ Len(gstate.forecast.datasets) = 6

\* C4: the forecast series is null at every historical position but the last,
\* holds the last windowed historical value there (where it equals the
\* historical series), and holds forecast.values[i] at position H + i.
C4_ForecastSeries ==
    \A c \in Charts :
        LET series == Dataset(c, "Forecast").data
        IN  /\ \A i \in 1..(H(c) - 1) : series[i] = Null
            /\ series[H(c)] = <<c.src.historical.values[N(c)]>>
            /\ series[H(c)] = Dataset(c, "Historical").data[H(c)]
            /\ \A j \in 1..F(c) : series[H(c) + j] = <<c.src.forecast.values[j]>>

\* a chart with several historical positions and several forecast positions
C4_Witness ==
    \E c \in Charts : H(c) >= 2 /\ H(c) < N(c) /\ F(c) >= 2

\* C5: the historical series holds the windowed historical values in order at
\* positions 0..H-1 and null at every forecast position.
C5_HistoricalSeries ==
    \A c \in Charts :
        LET series == Dataset(c, "Historical").data
        IN  /\ \A i \in 1..H(c) :
                 series[i] = <<c.src.historical.values[N(c) - H(c) + i]>>
            /\ \A j \in 1..F(c) : series[H(c) + j] = Null

\* the global chart after a period change, with several forecast positions
C5_Witness ==
    /\ gstate.forecast # None
    /\ gstate.forecast.window = <<12>>
    /\ F(gstate.forecast) >= 2

\* C6: every band series is null at every historical position and the band
\* value at every forecast position; each dataset carries the band its label
\* names, also after a period change, and the band series of a chart have
\* equal lengths.
C6_BandSeries ==
    \A c \in Charts :
        \A k \in 1..Len(c.datasets) :
            c.datasets[k].label \in BandLabels =>
                LET series == c.datasets[k].data
                    band == BandOf(c.src.forecast, c.datasets[k].label)
                IN  /\ Len(series) = H(c) + Len(band)
                    /\ \A i \in 1..H(c) : series[i] = Null
                    /\ \A j \in 1..Len(band) : series[H(c) + j] = <<band[j]>>
                    /\ \A l \in 1..Len(c.datasets) :
                         c.datasets[l].label \in BandLabels =>
                             Len(c.datasets[l].data) = Len(series)

\* the global chart after a period change that cut the history
C6_Witness ==
    /\ gstate.forecast # None
    /\ gstate.forecast.window = <<12>>
    /\ H(gstate.forecast) < N(gstate.forecast)
    /\ \E t \in Series : HasTileChart(t) /\ container[t].chart.window = <<24>>

\* the historical slice chart c shows
Shown(c) ==
    [dates  |-> SubSeq(c.labels, 1, H(c)),
     values |-> [i \in 1..H(c) |-> Dataset(c, "Historical").data[i][1]]]

\* the largest count a period button carries
MaxCount == 60

\* C7: windowing is idempotent: LastN(m) applied to the slice a chart shows
\* after LastN(n), for any m >= n, returns that same slice.
C7_WindowIdempotent ==
    \A c \in Charts :
        c.window # <<>> =>
            LET shown == Shown(c)
            IN  \A m \in c.window[1]..MaxCount :
                    WindowHistorical(shown, <<m>>) = shown

\* slices made by LastN(12): one cut from the long history, one of the short
\* history that the count exceeds
C7_Witness ==
    /\ \E c \in Charts : c.window = <<12>> /\ H(c) = 12 /\ N(c) > 12
    /\ \E c \in Charts : c.window = <<12>> /\ H(c) < 12

-----------------------------------------------------------------------------
\* C8: when the precomputed request of a tile is answered with an error field,
\* the tile's chart container shows 'Model not ready' with that error instead
\* of the spinner, no chart, stats, quality text or diff chart is rendered from
\* the response, the period buttons are not bound, and the global state
\* (state.analysisResults included) is left unchanged.
C8_AbsentShowsNotReady ==
    [][\A req \in inflight : \A e \in PrecomputedErrors :
          PrecomputedAbsent(req, e) =>
              /\ container'[req.series] = NotReady(e)
              /\ container'[req.series].kind # "spinner"
              /\ \A t \in Series \ {req.series} : container'[t] = container[t]
              /\ UNCHANGED <<tileStats, tileQuality, tileDiff, bind, gstate>>]_vars

\* a tile shows 'Model not ready', nothing was rendered in it
C8_Witness ==
    \E t \in Series :
        /\ container[t].kind = "notready"
        /\ container[t].error \in PrecomputedErrors
        /\ tileStats[t] = None /\ gstate.analysisResults = None

\* the text of the alert a failed analysis shows for the payload's detail
FailureText(detail) == IF detail # "" THEN detail ELSE "Analysis failed"

\* C9: a cache miss and a computation error are told apart: an Absent
\* precomputed response produces the 'Model not ready' message of its tile and
\* no alert, and a failed analyze request (tile or global) produces the
\* analysis-failure alert carrying the error detail and no 'Model not ready'
\* message.
C9_AbsentDistinctFromError ==
    [][/\ \A req \in inflight : \A e \in PrecomputedErrors :
            PrecomputedAbsent(req, e) =>
                /\ alerts' = alerts
                /\ container'[req.series].kind = "notready"
       /\ \A req \in inflight : \A d \in ErrorDetails :
            /\ TileAnalysisError(req, d) =>
                 /\ alerts' = <<"Analysis failed: ", FailureText(d)>>
                 /\ container' = container
            /\ AnalysisError(req, d) =>
                 /\ alerts' = <<"Analysis Error: ", FailureText(d)>>
                 /\ container' = container
       /\ \A req \in inflight :
            TileAnalysisFailed(req) \/ AnalysisFailed(req) =>
                /\ alerts'[2] = FetchFailed
                /\ container' = container]_vars

\* a tile told 'Model not ready', then an analysis of it failed with an alert
C9_Witness ==
    \E t \in Series :
        /\ container[t].kind = "notready"
        /\ alerts = <<"Analysis failed: ", "insufficient-data">>

\* a step that sends an analyze request or handles its non-OK response
AnalyzeSendOrError ==
    \/ \E t \in Series, m \in ModelTypes, h \in Horizons : RunTileAnalysis(t, m, h)
    \/ \E m \in ModelTypes, h \in Horizons : RunAnalysis(m, h)
    \/ \E req \in inflight, d \in ErrorDetails :
          TileAnalysisError(req, d) \/ AnalysisError(req, d)
    \/ \E s \in Series, m \in ModelTypes, h \in Horizons : UpdateAnalysis(s, m, h)
    \/ \E req \in inflight, d \in ErrorDetails : UpdateAnalysisError(req, d)

\* what a card of the legacy view displays, the opacity of its loading state
\* aside
Displayed(card) == [card EXCEPT !.opacity = ""]

\* C10: when an analyze request is answered with a non-OK response the alert
\* carries the payload's detail text, and neither sending the request nor
\* handling that response changes what is displayed or stored: the charts,
\* the stats, the quality text, the period-button bindings and the global
\* state (state.analysisResults included) keep their values, in the tiles, in
\* the global panel and in the cards of the legacy view (whose content, cache
\* and expanded set are kept, the dimmed card being made opaque again).
C10_ErrorChangesNothing ==
    [][/\ AnalyzeSendOrError =>
            /\ UNCHANGED <<container, bind, activeT, tileStats, tileQuality,
                           tileDiff, gstate, gpanel, lstate>>
            /\ \A s \in Series : Displayed(cards'[s]) = Displayed(cards[s])
       /\ \A req \in inflight : \A d \in ErrorDetails \ {""} :
            \/ TileAnalysisError(req, d)
            \/ AnalysisError(req, d)
            \/ UpdateAnalysisError(req, d)
            => alerts'[2] = d
       /\ \A req \in inflight : \A d \in ErrorDetails :
            UpdateAnalysisError(req, d) => cards'[req.series].opacity = "1"]_vars

\* an analysis failed in a tile that shows a chart and stats, which are kept
C10_Witness ==
    \E t \in Series :
        /\ HasTileChart(t)
        /\ tileStats[t] # None
        /\ gstate.analysisResults # None
        /\ alerts = <<"Analysis failed: ", "insufficient-data">>

-----------------------------------------------------------------------------
\* C11: a malformed indicator entry of the calendar never keeps the other
\* indicators from being rendered: whenever a calendar payload is rendered,
\* the list shows tiles, one for every entry whose series_id is a string.
C11_BadEntryKeepsOtherTiles ==
    [][\A req \in inflight : \A data \in Calendars :
          LoadCalendarDone(req, data) =>
              \A i \in 1..Len(data) :
                  data[i].series_id.type = "string" =>
                      /\ list'.kind = "tiles"
                      /\ \E k \in 1..Len(list'.tiles) :
                            list'.tiles[k] = data[i].series_id.id]_vars

\* a refresh of button b or the calendar reload it awaits is in flight
Refreshing(b) == \E req \in inflight : req.model_type = b

C12_LastWriteWins ==
    [][/\ \A req \in inflight :
            TileAnalysisDone(req) =>
                LET t == req.series
                    result == ForecastResult(t, req.model_type, req.h_future)
                IN  /\ container[t].kind = "canvas" => container'[t].fullData = result
                    /\ bind'[t] = [kind |-> "closure", data |-> result]
                    /\ tileStats'[t] = RenderTileStats(result, req.model_type)
                    /\ tileQuality'[t] = RenderTileQuality(result)
                    /\ tileDiff'[t] = RenderTileDiffChart(result)
                    /\ inflight' = inflight \ {req}
       /\ \A req \in inflight :
            AnalysisDone(req) =>
                LET result == ForecastResult(req.series, req.model_type, req.h_future)
                IN  /\ gstate'.analysisResults = result
                    /\ gstate'.forecast = RenderForecastChart(result)
                    /\ gpanel'.stats = RenderStats(result, req.model_type)
                    /\ inflight' = inflight \ {req}
       /\ (\/ \E t \in Series, m \in ModelTypes, h \in Horizons : RunTileAnalysis(t, m, h)
           \/ \E m \in ModelTypes, h \in Horizons : RunAnalysis(m, h))
          => inflight \subseteq inflight']_vars

\* two analyses of tile 1 were sent; the second one has been answered and is
\* on display while the first, with another horizon, is still in flight: its
\* response will replace the newer result
C12_Witness ==
    /\ nreq = 2
    /\ \E req \in inflight :
         /\ req.id = 1 /\ req.kind = "tile" /\ req.series = 1
         /\ bind[1].kind = "closure"
         /\ bind[1].data.forecast.dates # ForecastResult(1, req.model_type, req.h_future).forecast.dates
         /\ container[1].fullData = bind[1].data

-----------------------------------------------------------------------------
(* ForecastCache.getOrCompute *)

\* the calls of getOrCompute that a step adds
NewCalls == calls' \ calls

\* C13: getOrCompute is single-flight per key.  At any moment at most one
\* compute closure runs for a key; every caller that awaits is attached to the
\* running computation of its own key, so callers that overlap on a key share
\* one invocation, and each of them receives the entry of exactly that
\* computation.  A closure is started for a key only when none runs for it,
\* and a call on a key with no entry and no running computation starts its
\* closure in the same step whatever runs for other keys: it never waits for
\* a computation of a different key.
C13_SingleFlight ==
    /\ [](/\ \A f1, f2 \in running : f1.key = f2.key => f1 = f2
          /\ \A c \in calls :
                /\ c.status = "pending" => Computation(c.key, c.flight) \in running
                /\ (c.status = "returned" /\ c.flight > 0) =>
                      /\ c.entry.kind = "entry"
                      /\ c.entry.seriesId = c.key
                      /\ c.entry.computedAt = c.flight
          /\ \A c1, c2 \in calls :
                (c1.key = c2.key /\ c1.flight = c2.flight /\ c1.flight > 0
                 /\ c1.status = "returned" /\ c2.status = "returned")
                    => c1.entry = c2.entry)
    /\ [][/\ \A s \in ServerSeries :
                invoked'[s] # invoked[s] =>
                    /\ invoked'[s] = invoked[s] + 1
                    /\ ~ \E f \in running : f.key = s
                    /\ running' = running \cup {Computation(s, invoked'[s])}
          /\ \A c \in NewCalls :
                (cache[c.key] = Absent /\ ~ \E f \in running : f.key = c.key) =>
                    /\ invoked'[c.key] = invoked[c.key] + 1
                    /\ c.flight = invoked'[c.key]
          /\ \A c \in NewCalls :
                (\E f \in running : f.key = c.key) =>
                    /\ invoked' = invoked
                    /\ Computation(c.key, c.flight) \in running]_vars

\* two callers of one key were served by a single invocation of the closure,
\* while a computation of the other key was started as well
C13_Witness ==
    \E c1, c2 \in calls :
        /\ c1 # c2 /\ c1.key = c2.key
        /\ c1.status = "returned" /\ c2.status = "returned"
        /\ c1.flight = 1 /\ c2.flight = 1
        /\ c1.entry = c2.entry
        /\ invoked[c1.key] = 1
        /\ \E s \in ServerSeries : s # c1.key /\ invoked[s] = 1

-----------------------------------------------------------------------------
(* ModelSelector.selectBest *)

\* the candidates of a run that converged
Survivors(runs) == {i \in 1..Len(runs) : runs[i].ok}

\* C14: when a compute closure ends, the kind it stores is that of a candidate
\* that converged, whose RMSE is at most the RMSE of every other converged
\* candidate, with the lowest MAPE among those of equal RMSE and the earliest
\* position among those of equal RMSE and MAPE; the selection fails (nothing
\* is stored, the awaiting callers get the failure) exactly when every
\* candidate failed.
C14_SelectBestRanking ==
    [][\A f \in running :
          f \notin running' =>
              \A runs \in CandidateRuns :
                  LET served == {c \in calls' : c.key = f.key /\ c.flight = f.flight}
                      ranked ==
                          IF Survivors(runs) = {}
                          THEN /\ cache'[f.key] = Absent
                               /\ \A c \in served : c.status = "failed"
                          ELSE /\ \E b \in Survivors(runs) :
                                     /\ cache'[f.key].kind = "entry"
                                     /\ cache'[f.key].modelKind = Candidates[b]
                                     /\ \A j \in Survivors(runs) :
                                           /\ runs[b].rmse <= runs[j].rmse
                                           /\ runs[b].rmse = runs[j].rmse =>
                                                 runs[b].mape <= runs[j].mape
                                           /\ (runs[b].rmse = runs[j].rmse
                                               /\ runs[b].mape = runs[j].mape)
                                                 => b <= j
                               /\ served # {}
                               /\ \A c \in served :
                                     c.status = "returned" /\ c.entry = cache'[f.key]
                  IN  ranked \/ ~ComputeDone(f, runs)]_vars

\* one selection was won by the last-listed candidate and another one failed
C14_Witness ==
    /\ \E s \in ServerSeries :
          cache[s] # Absent /\ cache[s].modelKind = Candidates[Len(Candidates)]
    /\ \E c \in calls : c.status = "failed"

-----------------------------------------------------------------------------
(* PrecomputeScheduler *)

\* the sweep's call of getOrCompute for series s
SweepCalls(s) == {c \in calls : c.by = "sweep" /\ c.key = s}

\* C15: the sweep reaches its end; no series is visited twice, and at the end
\* every known series has been visited exactly once and its call is over.  A
\* series whose selection failed has been skipped: it is Absent unless a later
\* computation, asked for by someone else, stored an entry; a series whose
\* call returned has its entry.  A failing selection stores nothing and
\* leaves the iteration where it was.
C15_SweepCompletes ==
    /\ <>(sweep.done)
    /\ [](\A s \in ServerSeries : sweep.visits[s] <= 1)
    /\ [](sweep.done =>
            \A k \in 1..Len(KnownSeries) :
                LET s == KnownSeries[k]
                IN  /\ sweep.visits[s] = 1
                    /\ Cardinality(SweepCalls(s)) = 1
                    /\ \A c \in SweepCalls(s) :
                          /\ c.status # "pending"
                          /\ c.status = "returned" =>
                                cache[s] # Absent /\ c.entry.seriesId = s
                          /\ (c.status = "failed" /\ invoked[s] = c.flight) =>
                                cache[s] = Absent)
    /\ [][\A c \in calls :
             (c.status = "pending" /\ \E d \in calls' : d.id = c.id /\ d.by = c.by
                                                      /\ d.status = "failed")
                 => /\ cache[c.key] = Absent
                    /\ cache'[c.key] = Absent
                    /\ sweep' = sweep]_vars

\* the sweep has ended: the first series failed and was left Absent, the
\* second one has its entry
C15_Witness ==
    /\ sweep.done
    /\ cache[KnownSeries[1]] = Absent
    /\ \E c \in SweepCalls(KnownSeries[1]) : c.status = "failed"
    /\ cache[KnownSeries[2]] # Absent
    /\ \E c \in SweepCalls(KnownSeries[2]) : c.status = "returned" /\ c.flight > 0

-----------------------------------------------------------------------------
(* Reading the cache *)

\* C16: a precomputed request for a series with no cache entry can be served
\* at any time, also while a computation of that series is running; serving
\* it changes nothing on the backend (no closure is started), the tile shows
\* the not-ready message and the response adds no request.  A compute closure
\* is started only in a step that makes a getOrCompute call, and a request is
\* sent only by a step that is a user command.
C16_AbsentReadIsPassive ==
    /\ [](\A req \in inflight :
             (req.kind = "precomputed" /\ cache[req.series] = Absent)
                 => ENABLED ServePrecomputed(req))
    /\ [][/\ \A req \in inflight :
                (cache[req.series] = Absent /\ req \notin inflight'
                 /\ ServePrecomputed(req)) =>
                    /\ UNCHANGED serverVars
                    /\ inflight' = inflight \ {req}
                    /\ \E error \in PrecomputedErrors :
                          container'[req.series] = NotReady(error)
          /\ running' \ running # {} => NewCalls # {}
          /\ inflight' \ inflight # {} => nreq' = nreq + 1]_vars

\* a tile was told "not ready" while the model of its series was being
\* computed, and nothing else is under way for it
C16_Witness ==
    \E t \in Series :
        /\ \E error \in PrecomputedErrors : container[t] = NotReady(error)
        /\ Computation(t, 1) \in running
        /\ cache[t] = Absent
        /\ inflight = {}

-----------------------------------------------------------------------------
(* Malformed results *)

\* the arrays of {historical, forecast} have the lengths of their dates
WellFormed(src) ==
    /\ Len(src.historical.values) = Len(src.historical.dates)
    /\ \A band \in {src.forecast.values, src.forecast.sigma_1_up,
                   src.forecast.sigma_1_down, src.forecast.sigma_2_up,
                   src.forecast.sigma_2_down} :
          Len(band) = Len(src.forecast.dates)

\* C17: a malformed ForecastResult is never composed into a chart: every
\* chart on screen was composed from a well-formed result, and each of its
\* series has the length of its date axis.
C17_MalformedFailsLoudly ==
    \A c \in Charts :
        /\ WellFormed(c.src)
        /\ \A k \in 1..Len(c.datasets) : Len(c.datasets[k].data) = Len(c.labels)

-----------------------------------------------------------------------------
(* The parameters of analyze requests *)

\* C19: every analyze request carries a test length and a forecast horizon
\* that are positive integers, and the field of its model kind.
C19_RequestParameters ==
    \A req \in inflight :
        /\ req.n_test # Null /\ req.n_test[1] > 0
        /\ req.h_future # Null /\ req.h_future[1] > 0
        /\ req.kindField = KindField(req.model_type)

-----------------------------------------------------------------------------
(* Period buttons and the calendar *)

\* days between two observations: series 1 is published daily, series 2
\* monthly
DaysPerPeriod(s) == IF s = 1 THEN 1 ELSE 30

\* days of the calendar span one unit of a period button stands for (a month)
DaysPerMonth == 30

\* the calendar day of the observation with date ordinal d of series s
Day(s, d) == d * DaysPerPeriod(s)

\* the series whose history chart c was composed from
SeriesOf(c) ==
    CHOOSE s \in Series :
        c.src.historical = ForecastResult(s, "ARIMA", 1).historical

\* C20: a period button selects the window by date: a chart with a window of
\* p shows exactly the observations dated less than p months before the last
\* observation, whatever the frequency of the series.
C20_WindowByDate ==
    \A c \in Charts :
        c.window # <<>> =>
            LET s == SeriesOf(c)
                dates == c.src.historical.dates
                last == dates[N(c)]
            IN  {c.labels[i] : i \in 1..H(c)}
                  = {dates[i] : i \in {j \in 1..N(c) :
                        Day(s, last) - Day(s, dates[j]) < c.window[1] * DaysPerMonth}}

-----------------------------------------------------------------------------
(* Independence of tiles *)

\* what tile t shows: its chart container, the data its period buttons are
\* bound to, its stats, its quality text and its diff chart
TileView(t) == <<container[t], bind[t], tileStats[t], tileQuality[t], tileDiff[t]>>

\* C21: rendering for one tile leaves every other tile alone: a step
\* changes the view of at most one tile, and a step that settles a request
\* of a tile changes no view but that tile's.
C21_TilesIndependent ==
    [][/\ \A t \in Series :
             TileView(t)' # TileView(t) =>
                 \A u \in Series \ {t} : TileView(u)' = TileView(u)
       /\ \A req \in inflight \ inflight' :
             req.kind \in {"precomputed", "tile"} =>
                 \A u \in Series \ {req.series} : TileView(u)' = TileView(u)]_vars

\* both tiles show a chart, each of its own series, and the second one shows
\* an on-demand analysis
C21_Witness ==
    /\ HasTileChart(1) /\ HasTileChart(2)
    /\ bind[2].kind = "closure"
    /\ container[1].fullData = TileResult(1)
    /\ container[2].fullData = ForecastResult(2, "ARIMA", 1)

-----------------------------------------------------------------------------
(* The ARIMA order of a request *)

\* C22: for every order (p, d, q) the tile's inputs accept, the order sent in
\* the tile's analyze request is the order the user entered.
C22_OrderAsEntered ==
    [][\A t \in Series : \A order \in Orders :
          RunTileAnalysisOrder(t, InputValue(order[1]), InputValue(order[2]),
                               InputValue(order[3]))
             => \A req \in inflight' \ inflight : req.order = order]_vars

-----------------------------------------------------------------------------
(* On-demand analysis of a series without a precomputed result *)

\* C23: on-demand analysis stays available for a series whose precomputed
\* result is Absent: when an analyze request of a tile that shows
\* 'Model not ready' succeeds, the tile displays the forecast chart of that
\* analysis.
C23_AnalysisAfterNotReady ==
    [][\A req \in inflight :
          (/\ req.kind = "tile"
           /\ container[req.series].kind = "notready"
           /\ TileAnalysisDone(req))
             => /\ container'[req.series].kind = "canvas"
                /\ container'[req.series].chart # None
                /\ container'[req.series].fullData
                     = ForecastResult(req.series, req.model_type, req.h_future)]_vars

-----------------------------------------------------------------------------
(* An analysis started while the tile loads *)

\* tile t shows the on-demand analysis result data: its chart, its stats and
\* the data its period buttons are bound to
ShowsAnalysis(t, data) ==
    /\ HasTileChart(t) /\ container[t].fullData = data
    /\ tileStats[t] = RenderTileStats(data, "ARIMA")
    /\ bind[t] = [kind |-> "closure", data |-> data]

\* C24: when the precomputed load of a tile and the analyses started during
\* that load have all been answered, the tile shows the on-demand analysis,
\* not the precomputed model.  While the load is in flight the period
\* buttons of the tile can only have been bound by an analysis that
\* succeeded, so the step to look at is the answer of the load that leaves
\* no request in flight.
C24_AnalysisOverPrecomputed ==
    [][(/\ LoadingRequest \in inflight \ inflight'
        /\ inflight' = {}
        /\ bind[1] # None)
          => ShowsAnalysis(1, bind[1].data)']_vars

-----------------------------------------------------------------------------
(* The active period button of a tile *)

\* C25: the historical window a tile's chart displays is the window of the
\* period button marked active in that tile: one button is active, and the
\* chart was composed for that button's period.
C25_WindowOfActiveButton ==
    \A t \in Series :
        HasTileChart(t) =>
            /\ activeT[t] \in TilePeriodButtons
            /\ container[t].chart.window = WindowOf(ParseInt(activeT[t]))

-----------------------------------------------------------------------------
(* The data behind the global chart *)

\* C26: whenever the global forecast chart exists, state.fullChartData holds
\* the historical and forecast arrays of the result the chart was rendered
\* from, so that a period change re-slices the series the chart displays.
C26_FullChartDataOfChart ==
    gstate.forecast # None => gstate.fullChartData = gstate.forecast.src

-----------------------------------------------------------------------------
(* The loading overlay *)

\* C27: the loading overlay is shown exactly while at least one analysis
\* request is in flight: never hidden while one is pending, and hidden once
\* every request has finished.
C27_OverlayWhilePending ==
    overlay = "flex" <=> \E req \in inflight : req.kind \in {"tile", "global"}

-----------------------------------------------------------------------------
(* The windowed slice is never empty *)

\* what parseInt makes of the data-period of any period button: a positive
\* count, 0 for Max, NaN for a non-numeric value
PeriodValues == {ParseInt(btn) : btn \in TilePeriodButtons \cup GlobalPeriodButtons}

\* a history of n observations
History(n) ==
    [dates |-> [i \in 1..n |-> i], values |-> [i \in 1..n |-> Observation(1, i)]]

\* C28: for a history of at least one observation and any period value of a
\* button, the windowed slice is not empty, and a value that is not positive
\* selects the whole history; so on every chart on screen the position where
\* the forecast line joins the historical line exists and holds a value.
C28_SliceNeverEmpty ==
    /\ \A n \in 1..LongHist : \A periodValue \in PeriodValues :
          LET sliced == WindowHistorical(History(n), periodValue)
          IN  /\ Len(sliced.dates) >= 1 /\ Len(sliced.values) >= 1
              /\ ~IsPositive(periodValue) => sliced = History(n)
    /\ \A c \in Charts :
          /\ H(c) >= 1
          /\ Dataset(c, "Forecast").data[H(c)] # Null
          /\ c.window = <<>> => H(c) = N(c)

\* the global chart re-sliced by the Max button, whose data-period is not a
\* number, and a tile chart whose button count exceeds the history
C28_Witness ==
    /\ gstate.forecast # None /\ gpanel.active = "MAX"
    /\ gstate.forecast.window = <<>>
    /\ \E t \in Series :
          /\ HasTileChart(t) /\ activeT[t] = "60"
          /\ container[t].chart.window = <<60>>
          /\ H(container[t].chart) = N(container[t].chart)

-----------------------------------------------------------------------------
(* Legacy card view: the expanded set *)

\* the default analysis requests of indicator s in flight
DefaultLoads(s) == {req \in inflight : req.kind = "load" /\ req.series = s}

\* C29: in the legacy card view at most one default analysis request per
\* indicator is in flight, and once the requests of an indicator are
\* answered state.expandedIndicators contains its series id exactly when
\* its card is expanded.
C29_ExpandedSet ==
    page = "legacy" =>
        \A s \in Series :
            /\ Cardinality(DefaultLoads(s)) <= 1
            /\ DefaultLoads(s) = {} =>
                  (s \in lstate.expandedIndicators <=> ~cards[s].collapsed)

-----------------------------------------------------------------------------
(* Legacy card view: the listeners of the difference-mode buttons *)

\* the analysis whose stats and opinion the content shows: the most recent one
ShownAnalysis(content) ==
    ForecastResult(content.opinion[1], content.opinion[2], content.opinion[3])

\* C30: each difference-mode button of a card carries one click handler,
\* whatever the number of mode clicks and analysis updates, and the diff chart
\* shows the most recent analysis.
C30_OneHandlerPerButton ==
    \A s \in Series :
        cards[s].content.kind = "analysis" =>
            /\ Len(cards[s].content.listeners) <= 1
            /\ cards[s].content.charts.diff.comparison
                 = ShownAnalysis(cards[s].content).comparison

====
